---- MODULE Spec2Model ----
(***************************************************************************)
(* Model of src/main.py: the electronic delivery note ingestion pipeline.  *)
(*                                                                         *)
(* Storage is modelled at the level of the SQL the program issues: the     *)
(* master table, the detail table, the daily total table and the           *)
(* append-only api_log table.  Text values are sequences of one-character  *)
(* strings, so that trimming and decimal parsing are computed as the code  *)
(* computes them; SQL NULL / Python None is the value NULL.                *)
(***************************************************************************)
EXTENDS Integers, Sequences, FiniteSets, TLC

VARIABLES
    master,     \* electronic_delivery_note_master : invenNo -> row
    detail,     \* electronic_delivery_note_detail : <<invenNo, invenDetNo>> -> row
    daily,      \* daily_unloading_cost_total : aggregation key -> total
    api_log,    \* api_log : sequence of audit rows, in insertion order
    nruns,      \* number of invocations of main() so far
    last        \* inputs and outcome of the latest invocation of main()

vars == <<master, detail, daily, api_log, nruns, last>>

(***************************************************************************)
(* Bounds of the model.                                                    *)
(***************************************************************************)
MaxRuns == 2      \* invocations of main() in one behaviour
MaxItems == 2     \* items in one API response
MaxLines == 1     \* detail lines under one item

(***************************************************************************)
(* Values.                                                                 *)
(***************************************************************************)
NULL == <<"NULL">>          \* None / SQL NULL: no text value has this shape
EMPTY == <<>>               \* the empty string ''

Digits == <<"0", "1", "2", "3", "4", "5", "6", "7", "8", "9">>
IsDigit(ch) == \E i \in 1..10 : Digits[i] = ch
DigitVal(ch) == (CHOOSE i \in 1..10 : Digits[i] = ch) - 1
IsSpace(ch) == ch = " "

RECURSIVE Pow10(_)
Pow10(n) == IF n <= 0 THEN 1 ELSE 10 * Pow10(n - 1)

Min(a, b) == IF a < b THEN a ELSE b

\* F applied to the value of v, which is computed once
Then(v, F(_)) == CHOOSE r \in {F(x) : x \in {v}} : TRUE
Abs(n) == IF n < 0 THEN 0 - n ELSE n

\* str.strip(): drop leading and trailing whitespace
RECURSIVE LStrip(_)
LStrip(s) ==
    IF s # <<>> /\ IsSpace(Head(s)) THEN Then(Tail(s), LAMBDA t : LStrip(t)) ELSE s
RECURSIVE RStrip(_)
RStrip(s) ==
    IF s # <<>> /\ IsSpace(s[Len(s)])
    THEN Then(SubSeq(s, 1, Len(s) - 1), LAMBDA t : RStrip(t))
    ELSE s
Strip(s) == Then(LStrip(s), LAMBDA t : RStrip(t))

(***************************************************************************)
(* decimal.Decimal, for finite numerals: sign s (1 is negative),           *)
(* coefficient c >= 0 and exponent e; the value is (-1)^s * c * 10^e.      *)
(* Decimal keeps the exponent of the literal ("5.0" is 50 * 10^-1).        *)
(* The field k tells a finite number from the special values: "F" is       *)
(* Infinity, "n" a quiet NaN, "N" a signaling NaN (c is the diagnostic     *)
(* payload of a NaN, 0 when there is none).                                *)
(***************************************************************************)
Dec(s, c, e) == [s |-> s, c |-> c, e |-> e, k |-> "finite"]
Special(s, k, c) == [s |-> s, c |-> c, e |-> 0, k |-> k]
ZERO_DECIMAL == Dec(0, 0, 0)
IsFinite(d) == d.k = "finite"

\* the outcome of a Decimal operation that raises InvalidOperation
RaisedDecimal == [s |-> 0, c |-> 0, e |-> 0, k |-> "InvalidOperation"]
\* the outcome of a normalizer that raises InvalidOperation
RAISED == <<"InvalidOperation">>

UpperCase == <<"A", "B", "C", "D", "E", "F", "G", "H", "I", "J", "K", "L", "M",
               "N", "O", "P", "Q", "R", "S", "T", "U", "V", "W", "X", "Y", "Z">>
LowerCase == <<"a", "b", "c", "d", "e", "f", "g", "h", "i", "j", "k", "l", "m",
               "n", "o", "p", "q", "r", "s", "t", "u", "v", "w", "x", "y", "z">>
\* str.lower(), character by character
LowerCh(ch) ==
    IF \E i \in 1..26 : UpperCase[i] = ch
    THEN LowerCase[CHOOSE i \in 1..26 : UpperCase[i] = ch]
    ELSE ch
Lower(s) == [i \in 1..Len(s) |-> LowerCh(s[i])]

RECURSIVE DigitsValTo(_, _)
DigitsValTo(s, n) == IF n = 0 THEN 0 ELSE 10 * DigitsValTo(s, n - 1) + DigitVal(s[n])
DigitsVal(s) == DigitsValTo(s, Len(s))

AllDigits(s) == \A i \in 1..Len(s) : IsDigit(s[i])
PointAt(s) == IF \E i \in 1..Len(s) : s[i] = "."
              THEN CHOOSE i \in 1..Len(s) : s[i] = "." /\ \A j \in 1..(i - 1) : s[j] # "."
              ELSE 0

FirstAt(s, chars) ==
    IF \E i \in 1..Len(s) : s[i] \in chars
    THEN CHOOSE i \in 1..Len(s) : s[i] \in chars /\ \A j \in 1..(i - 1) : s[j] \notin chars
    ELSE 0

\* Decimal(str): surrounding whitespace is ignored, then
\*   [sign] digits [. digits] [E [sign] digits]   with at least one digit
\*   in the coefficient, or
\*   [sign] Inf | Infinity | NaN [digits] | sNaN [digits]   in any case.
\* Anything else raises InvalidOperation (ok = FALSE).
ParseCoefficient(sign, s, exp) ==
    LET p == PointAt(s)
        ip == IF p = 0 THEN s ELSE SubSeq(s, 1, p - 1)
        fp == IF p = 0 THEN <<>> ELSE SubSeq(s, p + 1, Len(s))
    IN  IF AllDigits(ip) /\ AllDigits(fp) /\ Len(ip) + Len(fp) > 0
        THEN [ok |-> TRUE, d |-> Dec(sign, DigitsVal(ip \o fp), exp - Len(fp))]
        ELSE [ok |-> FALSE, d |-> ZERO_DECIMAL]

\* the exponent part [sign] digits, as [ok, n]
ParseExponent(s) ==
    LET neg == s # <<>> /\ Head(s) = "-"
        ds == IF s # <<>> /\ Head(s) \in {"-", "+"} THEN Tail(s) ELSE s
    IN  IF ds # <<>> /\ AllDigits(ds)
        THEN [ok |-> TRUE, n |-> IF neg THEN 0 - DigitsVal(ds) ELSE DigitsVal(ds)]
        ELSE [ok |-> FALSE, n |-> 0]

\* "nan" or "snan" followed by diagnostic digits
ParseNaN(sign, low, k, skip) ==
    LET ds == SubSeq(low, skip + 1, Len(low))
    IN  IF AllDigits(ds)
        THEN [ok |-> TRUE, d |-> Special(sign, k, DigitsVal(ds))]
        ELSE [ok |-> FALSE, d |-> ZERO_DECIMAL]

ParseUnsigned(sign, s) ==
    LET low == Lower(s)
        x == FirstAt(s, {"E", "e"})
    IN  IF low \in {<<"i", "n", "f">>, <<"i", "n", "f", "i", "n", "i", "t", "y">>}
        THEN [ok |-> TRUE, d |-> Special(sign, "F", 0)]
        ELSE IF Len(low) >= 3 /\ SubSeq(low, 1, 3) = <<"n", "a", "n">>
        THEN ParseNaN(sign, low, "n", 3)
        ELSE IF Len(low) >= 4 /\ SubSeq(low, 1, 4) = <<"s", "n", "a", "n">>
        THEN ParseNaN(sign, low, "N", 4)
        ELSE IF x = 0 THEN ParseCoefficient(sign, s, 0)
        ELSE LET ex == ParseExponent(SubSeq(s, x + 1, Len(s)))
             IN  IF ex.ok THEN ParseCoefficient(sign, SubSeq(s, 1, x - 1), ex.n)
                 ELSE [ok |-> FALSE, d |-> ZERO_DECIMAL]

ParseDecimal(v) ==
    Then(Strip(v),
         LAMBDA s :
             IF s = <<>> THEN [ok |-> FALSE, d |-> ZERO_DECIMAL]
             ELSE IF Head(s) = "-" THEN Then(Tail(s), LAMBDA t : ParseUnsigned(1, t))
             ELSE IF Head(s) = "+" THEN Then(Tail(s), LAMBDA t : ParseUnsigned(0, t))
             ELSE ParseUnsigned(0, s))

\* Decimal.normalize(): strip trailing zeros of the coefficient; zero is 0E+0.
\* Infinity and a quiet NaN are returned as they are; a signaling NaN raises.
RECURSIVE NormalizeFinite(_)
NormalizeFinite(d) ==
    IF d.c = 0 THEN Dec(d.s, 0, 0)
    ELSE IF d.c % 10 = 0
    THEN Then(Dec(d.s, d.c \div 10, d.e + 1), LAMBDA nxt : NormalizeFinite(nxt))
    ELSE d
DecNormalize(d) ==
    IF IsFinite(d) THEN NormalizeFinite(d)
    ELSE IF d.k = "N" THEN RaisedDecimal
    ELSE d

\* Decimal.__mul__: exact product (the context precision of 28 digits is not
\* reached). A signaling NaN operand raises; otherwise a NaN operand gives
\* that NaN; Infinity times zero raises; Infinity times anything else is
\* Infinity.
DecMul(a, b) ==
    IF a.k = "N" \/ b.k = "N" THEN RaisedDecimal
    ELSE IF a.k = "n" THEN a
    ELSE IF b.k = "n" THEN b
    ELSE IF a.k = "F"
    THEN (IF IsFinite(b) /\ b.c = 0 THEN RaisedDecimal ELSE Special((a.s + b.s) % 2, "F", 0))
    ELSE IF b.k = "F"
    THEN (IF a.c = 0 THEN RaisedDecimal ELSE Special((a.s + b.s) % 2, "F", 0))
    ELSE Dec((a.s + b.s) % 2, a.c * b.c, a.e + b.e)
\* d == d.to_integral(): the value has no fractional part (Infinity equals
\* itself, a quiet NaN equals nothing)
DecIsIntegral(d) ==
    IF IsFinite(d) THEN NormalizeFinite(d).e >= 0 ELSE d.k = "F"

\* str(int) for a natural number
RECURSIVE NatToStr(_)
NatToStr(n) ==
    IF n < 10 THEN <<Digits[n + 1]>>
    ELSE Then(n \div 10, LAMBDA q : NatToStr(q)) \o <<Digits[(n % 10) + 1]>>

RECURSIVE Zeros(_)
Zeros(n) == IF n <= 0 THEN <<>> ELSE <<"0">> \o Zeros(n - 1)

SignStr(d) == IF d.s = 1 THEN <<"-">> ELSE <<>>

\* Decimal.__str__: plain notation when the exponent is <= 0 and the number is
\* not too small, scientific notation otherwise ("5E+1" for Decimal("50").normalize())
FiniteStr(d) ==
    LET digits == NatToStr(d.c)
        leftdigits == d.e + Len(digits)
        dotplace == IF d.e <= 0 /\ leftdigits > 0 - 6 THEN leftdigits ELSE 1
        intpart == IF dotplace <= 0 THEN <<"0">>
                   ELSE IF dotplace >= Len(digits) THEN digits \o Zeros(dotplace - Len(digits))
                   ELSE SubSeq(digits, 1, dotplace)
        fracpart == IF dotplace <= 0 THEN <<".">> \o Zeros(0 - dotplace) \o digits
                    ELSE IF dotplace >= Len(digits) THEN <<>>
                    ELSE <<".">> \o SubSeq(digits, dotplace + 1, Len(digits))
        x == leftdigits - dotplace
        exp == IF x = 0 THEN <<>>
               ELSE <<"E">> \o (IF x < 0 THEN <<"-">> ELSE <<"+">>) \o NatToStr(Abs(x))
    IN  SignStr(d) \o intpart \o fracpart \o exp

SpecialStr(d) ==
    SignStr(d) \o (IF d.k = "F" THEN <<"I", "n", "f", "i", "n", "i", "t", "y">>
                   ELSE (IF d.k = "N" THEN <<"s">> ELSE <<>>) \o <<"N", "a", "N">>
                            \o (IF d.c = 0 THEN <<>> ELSE NatToStr(d.c)))
DecStr(d) == IF IsFinite(d) THEN FiniteStr(d) ELSE SpecialStr(d)

\* format(d, "f"): fixed-point notation
FormatF(d) ==
    IF ~IsFinite(d) THEN SpecialStr(d)
    ELSE IF d.e >= 0 THEN SignStr(d) \o NatToStr(d.c) \o (IF d.c = 0 THEN <<>> ELSE Zeros(d.e))
    ELSE LET k == 0 - d.e
             ds == NatToStr(d.c)
             padded == Zeros(k + 1 - Len(ds)) \o ds
         IN  SignStr(d) \o SubSeq(padded, 1, Len(padded) - k) \o <<".">>
                 \o SubSeq(padded, Len(padded) - k + 1, Len(padded))

RECURSIVE RStripCh(_, _)
RStripCh(s, ch) ==
    IF s # <<>> /\ s[Len(s)] = ch
    THEN Then(SubSeq(s, 1, Len(s) - 1), LAMBDA t : RStripCh(t, ch))
    ELSE s

(***************************************************************************)
(* Numbers as a DECIMAL column stores them: the signed value, in the       *)
(* canonical form n * 10^e with n not a multiple of 10 (0 is <<0, 0>>).    *)
(***************************************************************************)
RECURSIVE NumCanon(_, _)
NumCanon(n, e) ==
    IF n = 0 THEN [n |-> 0, e |-> 0]
    ELSE IF n % 10 = 0 THEN NumCanon(n \div 10, e + 1)
    ELSE [n |-> n, e |-> e]
SqlNumber(d) == NumCanon(IF d.s = 1 THEN 0 - d.c ELSE d.c, d.e)
SqlZero == NumCanon(0, 0)
SqlAdd(a, b) ==
    LET e == Min(a.e, b.e)
    IN  NumCanon(a.n * Pow10(a.e - e) + b.n * Pow10(b.e - e), e)
Num(n) == NumCanon(n, 0)

(***************************************************************************)
(* Field normalizers.                                                      *)
(***************************************************************************)
_normalize_good_code(value) ==
    IF value = NULL THEN NULL
    ELSE LET value_str == Strip(value)
         IN  IF value_str = <<>> THEN NULL ELSE value_str

\* lines 86-90, for the parsed decimal_value
NormalizedKey(decimal_value) ==
    Then(DecNormalize(decimal_value),
         LAMBDA normalized :
             IF normalized = RaisedDecimal THEN RAISED
             ELSE IF DecIsIntegral(normalized) THEN DecStr(normalized)
             ELSE Then(RStripCh(RStripCh(FormatF(normalized), "0"), "."),
                       LAMBDA normalized_str :
                           IF normalized_str = <<>> THEN <<"0">> ELSE normalized_str))

_normalize_unit_quantity(value) ==
    IF value = NULL THEN NULL
    ELSE Then(ParseDecimal(value),
              LAMBDA r :
                  IF ~r.ok
                  THEN Then(Strip(value),
                            LAMBDA fallback : IF fallback = <<>> THEN NULL ELSE fallback)
                  ELSE NormalizedKey(r.d))

_to_decimal(value) ==
    IF value = NULL THEN ZERO_DECIMAL
    ELSE Then(ParseDecimal(value), LAMBDA r : IF r.ok THEN r.d ELSE ZERO_DECIMAL)

(***************************************************************************)
(* Record Builder.  An API item is a record (a JSON object); a key that is *)
(* missing reads as None.                                                  *)
(***************************************************************************)
Get(item, key) == IF key \in DOMAIN item THEN item[key] ELSE NULL

_clip(value, max_len) ==
    IF value = NULL THEN NULL ELSE SubSeq(value, 1, Min(Len(value), max_len))

\* maximum lengths of build_master_row; 0 marks a column passed through unclipped
MasterClip ==
    [invenNo |-> 50, whsalCd |-> 6, cmpCd |-> 8, shipType |-> 1, shipDate |-> 8,
     shipName |-> 200, shipContact |-> 200, shipDecNo |-> 12, shipBankCd |-> 255,
     shipBankName |-> 255, shipAccNum |-> 255, shipAccDep |-> 255, tradeType |-> 1,
     tradeClass |-> 1, drvName |-> 255, drvCall |-> 255, drvCarNo |-> 255,
     drvRate |-> 0, drvBankName |-> 255, drvAccNum |-> 255, drvAccDep |-> 255,
     invenState |-> 2, registDate |-> 14, udtDate |-> 14, chkDate |-> 14]

build_master_row(item) ==
    [col \in DOMAIN MasterClip |->
        IF MasterClip[col] = 0 THEN Get(item, col)
        ELSE _clip(Get(item, col), MasterClip[col])]

\* maximum lengths of build_detail_row (invenNo comes from the master item)
DetailClip ==
    [invenDetNo |-> 22, proName |-> 255, proDecNo |-> 255, goodCd |-> 6, pojCd |-> 2,
     danCd |-> 2, lvCd |-> 2, sanCd |-> 6, selfGoodCd |-> 6, selfPojCd |-> 6,
     selfDanCd |-> 6, selfLvCd |-> 6, selfSanCd |-> 6, ecoCd |-> 1,
     unitQuantity |-> 0, shipQuantity |-> 0, frtQy |-> 0, detailNote |-> 0,
     selfGoodNm |-> 255, sugAmt |-> 0]

build_detail_row(master_inven_no, item) ==
    [col \in DOMAIN DetailClip \cup {"invenNo", "sahaca_amount"} |->
        IF col = "invenNo" THEN _clip(master_inven_no, 50)
        ELSE IF col = "sahaca_amount" THEN ZERO_DECIMAL
        ELSE IF DetailClip[col] = 0 THEN Get(item, col)
        ELSE _clip(Get(item, col), DetailClip[col])]

\* isinstance(master_item.get(key), list): the items carry a list under a
\* detail key or do not have the key at all
HasList(master_item, key) == key \in DOMAIN master_item

DetailListKeys == <<"detailList", "details", "invenDetails", "invenDetailList">>
get_detail_list(master_item) ==
    IF \E i \in 1..Len(DetailListKeys) : HasList(master_item, DetailListKeys[i])
    THEN master_item[DetailListKeys[CHOOSE i \in 1..Len(DetailListKeys) :
                        /\ HasList(master_item, DetailListKeys[i])
                        /\ \A j \in 1..(i - 1) : ~HasList(master_item, DetailListKeys[j])]]
    ELSE <<>>

\* main(), lines 563-568: one master row per item, one detail row per line
BuildMasterRows(items) == [i \in 1..Len(items) |-> build_master_row(items[i])]

DetailRowsOf(master_item) ==
    LET lines == get_detail_list(master_item)
    IN  [i \in 1..Len(lines) |-> build_detail_row(Get(master_item, "invenNo"), lines[i])]

RECURSIVE DetailRowsFrom(_, _)
DetailRowsFrom(items, i) ==
    IF i > Len(items) THEN <<>> ELSE DetailRowsOf(items[i]) \o DetailRowsFrom(items, i + 1)
BuildDetailRows(items) == DetailRowsFrom(items, 1)

(***************************************************************************)
(* Reference tables, read-only here.                                       *)
(***************************************************************************)
\* sahacacode, in the order the query returns its rows:
\* (good code, unit quantity, rate)
SahacaRows ==
    << <<(<<"G", "1">>), (<<"5">>), (<<"5", "0">>)>>,
       <<(<<"G", "2">>), (<<"5", ".", "0", "0">>), (<<"1", "0">>)>> >>

\* chulcode_matching: proDecNo -> (chulcode, chcdcode); P2 is not routed yet
ChulcodeMatching ==
    { [proDecNo |-> <<"P", "1">>, chulcode |-> <<"C", "H">>, chcdcode |-> <<"C", "D">>],
      [proDecNo |-> <<"P", "2">>, chulcode |-> NULL, chcdcode |-> <<"C", "D">>] }

(***************************************************************************)
(* Cost Lookup Engine.                                                     *)
(***************************************************************************)
\* lines 129-135: the lookup built from the fetched records, last write wins
LookupPut(lookup, rec) ==
    Then(<<_normalize_good_code(rec[1]), _normalize_unit_quantity(rec[2])>>,
         LAMBDA key :
             Then(_to_decimal(rec[3]),
                  LAMBDA rate :
                      [k \in DOMAIN lookup \cup {key} |->
                          IF k = key THEN rate ELSE lookup[k]]))

RECURSIVE BuildLookup(_, _, _)
BuildLookup(records, i, lookup) ==
    IF i > Len(records) THEN lookup
    ELSE Then(LookupPut(lookup, records[i]), LAMBDA nxt : BuildLookup(records, i + 1, nxt))

EmptyMap == [k \in {} |-> NULL]

\* normalizing the unit quantity of a fetched record raises (line 133)
LookupRaises(records) ==
    \E i \in 1..Len(records) : _normalize_unit_quantity(records[i][2]) = RAISED

\* lines 137-142: the cost of one line; RaisedDecimal when line 139 or the
\* multiplication of line 142 raises
LineCost(lookup, row) ==
    Then(<<_normalize_good_code(row.selfGoodCd), _normalize_unit_quantity(row.unitQuantity)>>,
         LAMBDA key :
             IF key[2] = RAISED THEN RaisedDecimal
             ELSE Then(IF key \in DOMAIN lookup THEN lookup[key] ELSE ZERO_DECIMAL,
                       LAMBDA haca :
                           Then(_to_decimal(row.shipQuantity),
                                LAMBDA ship_qty : DecMul(haca, ship_qty))))

\* lines 119-127: SELECT ... FROM sahacacode WHERE good code IN (goods)
FetchRates(sahacacode, goods) == SelectSeq(sahacacode, LAMBDA rec : rec[1] \in goods)

\* lines 137-142 over the rows: the lines before the first one that raises
\* have their cost, the others are as they were
CostLines(lookup, rows) ==
    LET cost == [i \in 1..Len(rows) |-> LineCost(lookup, rows[i])]
        stop == IF \E i \in 1..Len(rows) : cost[i] = RaisedDecimal
                THEN CHOOSE i \in 1..Len(rows) :
                         /\ cost[i] = RaisedDecimal
                         /\ \A j \in 1..(i - 1) : cost[j] # RaisedDecimal
                ELSE Len(rows) + 1
    IN  [raised |-> stop <= Len(rows),
         rows |-> [i \in 1..Len(rows) |->
                      IF i < stop THEN [rows[i] EXCEPT !.sahaca_amount = cost[i]]
                      ELSE rows[i]]]

\* populate_sahaca_amount against the reference table sahacacode: whether it
\* raised, and the rows as it left them
PopulateFrom(sahacacode, rows) ==
    LET goods == {_normalize_good_code(rows[i].selfGoodCd) : i \in 1..Len(rows)} \ {NULL}
        records == FetchRates(sahacacode, goods)
    IN  IF goods = {}
        THEN [raised |-> FALSE,
              rows |-> [i \in 1..Len(rows) |-> [rows[i] EXCEPT !.sahaca_amount = ZERO_DECIMAL]]]
        ELSE IF LookupRaises(records)
        THEN [raised |-> TRUE, rows |-> rows]
        ELSE Then(BuildLookup(records, 1, EmptyMap),
                  LAMBDA lookup : CostLines(lookup, rows))

\* the rows with sahaca_amount set
populate_sahaca_amount(rows) == PopulateFrom(SahacaRows, rows).rows

(***************************************************************************)
(* Merge/Upsert Policy Engine.  INSERT ... ON DUPLICATE KEY UPDATE handles *)
(* the rows of executemany in order; for a row whose key exists, the       *)
(* assignments of the UPDATE list are evaluated left to right, each IF     *)
(* reading the row as the assignments before it left it.                   *)
(***************************************************************************)
\* the same assignments without the one of chkDate
MasterUpdateCols_noChkDate ==
    <<"whsalCd", "cmpCd", "shipType", "shipDate", "shipName", "shipContact",
      "shipDecNo", "shipBankCd", "shipBankName", "shipAccNum", "shipAccDep",
      "tradeType", "tradeClass", "drvName", "drvCall", "drvCarNo", "drvRate",
      "drvBankName", "drvAccNum", "drvAccDep", "invenState", "registDate",
      "udtDate">>

\* the same assignments with chkDate moved to the front of the list
MasterUpdateCols_chkDateFirst ==
    <<"chkDate", "whsalCd", "cmpCd", "shipType", "shipDate", "shipName", "shipContact",
      "shipDecNo", "shipBankCd", "shipBankName", "shipAccNum", "shipAccDep",
      "tradeType", "tradeClass", "drvName", "drvCall", "drvCarNo", "drvRate",
      "drvBankName", "drvAccNum", "drvAccDep", "invenState", "registDate",
      "udtDate">>

MasterUpdateCols ==
    <<"whsalCd", "cmpCd", "shipType", "shipDate", "shipName", "shipContact",
      "shipDecNo", "shipBankCd", "shipBankName", "shipAccNum", "shipAccDep",
      "tradeType", "tradeClass", "drvName", "drvCall", "drvCarNo", "drvRate",
      "drvBankName", "drvAccNum", "drvAccDep", "invenState", "registDate",
      "udtDate", "chkDate">>

Coalesce(value, dflt) == IF value = NULL THEN dflt ELSE value

\* the ungated merge policy: every conflict overwrites
MasterOpen_ungated(row) == TRUE

\* COALESCE(chkDate, '') = ''
MasterOpen(row) == Coalesce(row.chkDate, EMPTY) = EMPTY

\* one assignment of the UPDATE list: col = IF(COALESCE(chkDate, '') = '', VALUES(col), col)
MasterAssignCol(cur, new, col) ==
    [cur EXCEPT ![col] = IF MasterOpen(cur) THEN new[col] ELSE cur[col]]

RECURSIVE MasterAssign(_, _, _, _)
MasterAssign(cols, i, cur, new) ==
    IF i > Len(cols) THEN cur
    ELSE Then(MasterAssignCol(cur, new, cols[i]),
              LAMBDA nxt : MasterAssign(cols, i + 1, nxt, new))

UpsertMasterRow(tbl, row) ==
    IF row.invenNo \in DOMAIN tbl
    THEN [tbl EXCEPT ![row.invenNo] = MasterAssign(MasterUpdateCols, 1, tbl[row.invenNo], row)]
    ELSE [k \in DOMAIN tbl \cup {row.invenNo} |-> IF k = row.invenNo THEN row ELSE tbl[k]]

RECURSIVE UpsertMasterFrom(_, _, _)
UpsertMasterFrom(tbl, rows, i) ==
    IF i > Len(rows) THEN tbl
    ELSE Then(UpsertMasterRow(tbl, rows[i]), LAMBDA nxt : UpsertMasterFrom(nxt, rows, i + 1))

\* the master table after cur.executemany(sql, rows)
upsert_master(tbl, rows) == UpsertMasterFrom(tbl, rows, 1)

DetailUpdateCols ==
    <<"proName", "proDecNo", "goodCd", "pojCd", "danCd", "lvCd", "sanCd",
      "selfGoodCd", "selfPojCd", "selfDanCd", "selfLvCd", "selfSanCd", "ecoCd",
      "unitQuantity", "shipQuantity", "frtQy", "detailNote", "selfGoodNm",
      "sugAmt", "sahaca_amount">>

\* flag_erp_apply = 1
DetailFrozen(row) == row.flag_erp_apply = 1

\* the row as the INSERT stores it: the cost in a numeric column, and
\* flag_erp_apply, which the INSERT does not name, at its default
DetailStored(row) ==
    [col \in DOMAIN row \cup {"flag_erp_apply"} |->
        IF col = "flag_erp_apply" THEN 0
        ELSE IF col = "sahaca_amount" THEN SqlNumber(row.sahaca_amount)
        ELSE row[col]]

\* the cost column assigned without the IF
DetailAssignCol_cost(cur, new, col) ==
    [cur EXCEPT ![col] =
        IF DetailFrozen(cur) /\ col # "sahaca_amount" THEN cur[col] ELSE new[col]]

\* one assignment of the UPDATE list: col = IF(flag_erp_apply = 1, col, VALUES(col))
DetailAssignCol(cur, new, col) ==
    [cur EXCEPT ![col] = IF DetailFrozen(cur) THEN cur[col] ELSE new[col]]

RECURSIVE DetailAssign(_, _, _, _)
DetailAssign(cols, i, cur, new) ==
    IF i > Len(cols) THEN cur
    ELSE Then(DetailAssignCol(cur, new, cols[i]),
              LAMBDA nxt : DetailAssign(cols, i + 1, nxt, new))

DetailKey(row) == <<row.invenNo, row.invenDetNo>>

UpsertDetailRow(tbl, row) ==
    LET key == DetailKey(row)
    IN  IF key \in DOMAIN tbl
        THEN [tbl EXCEPT ![key] = DetailAssign(DetailUpdateCols, 1, tbl[key], DetailStored(row))]
        ELSE [k \in DOMAIN tbl \cup {key} |-> IF k = key THEN DetailStored(row) ELSE tbl[k]]

RECURSIVE UpsertDetailFrom(_, _, _)
UpsertDetailFrom(tbl, rows, i) ==
    IF i > Len(rows) THEN tbl
    ELSE Then(UpsertDetailRow(tbl, rows[i]), LAMBDA nxt : UpsertDetailFrom(nxt, rows, i + 1))

\* the detail table after cur.executemany(sql, rows)
upsert_detail(tbl, rows) == UpsertDetailFrom(tbl, rows, 1)

(***************************************************************************)
(* Daily Aggregation Engine.                                               *)
(***************************************************************************)
\* d JOIN m ON m.invenNo = d.invenNo JOIN cm ON cm.proDecNo = d.proDecNo:
\* the pairs <<detail key, mapping row>> of the join (NULL equals nothing)
JoinRows(m, d) ==
    {jr \in (DOMAIN d) \X ChulcodeMatching :
        /\ d[jr[1]].invenNo \in DOMAIN m
        /\ d[jr[1]].proDecNo # NULL
        /\ jr[2].proDecNo = d[jr[1]].proDecNo}

\* (m.shipDate, cm.chulcode, cm.chcdcode, d.selfSanCd, d.selfGoodCd)
AggKey(m, d, jr) ==
    <<m[d[jr[1]].invenNo].shipDate, jr[2].chulcode, jr[2].chcdcode,
      d[jr[1]].selfSanCd, d[jr[1]].selfGoodCd>>

NoNull(key) == \A i \in 1..Len(key) : key[i] # NULL

\* the keys of all lines of the ledger, whatever the declaration
ImpactedKeys_all(m, d, unique_inven_nos) ==
    {key \in {AggKey(m, d, jr) :
                jr \in {x \in JoinRows(m, d) :
                          x[2].chulcode # NULL /\ x[2].chcdcode # NULL}} :
        NoNull(key)}

\* impacted_sql and the filter of lines 168-170
ImpactedKeys(m, d, unique_inven_nos) ==
    {key \in {AggKey(m, d, jr) :
                jr \in {x \in JoinRows(m, d) :
                          /\ d[x[1]].invenNo \in unique_inven_nos
                          /\ x[2].chulcode # NULL
                          /\ x[2].chcdcode # NULL}} :
        NoNull(key)}

RECURSIVE SumCost(_, _)
SumCost(d, jrs) ==
    IF jrs = {} THEN SqlZero
    ELSE Then(CHOOSE x \in jrs : TRUE,
              LAMBDA jr : SqlAdd(d[jr[1]].sahaca_amount, SumCost(d, jrs \ {jr})))

\* the sum taken over the touched declarations only
SumScope_touched(m, d, unique_inven_nos) ==
    {jr \in JoinRows(m, d) : d[jr[1]].invenNo \in unique_inven_nos}

\* sum_sql: the rows of the whole join whose key is one of the impacted keys
SumScope(m, d, unique_inven_nos) == JoinRows(m, d)

\* SUM(COALESCE(d.sahaca_amount, 0)) ... GROUP BY the key
Totals(m, d, keys, unique_inven_nos) ==
    LET scope == {jr \in SumScope(m, d, unique_inven_nos) : AggKey(m, d, jr) \in keys}
        found == {AggKey(m, d, jr) : jr \in scope}
    IN  [key \in found |-> SumCost(d, {jr \in scope : AggKey(m, d, jr) = key})]

\* the new sum added to the stored total
UpsertTotals_accumulate(tbl, totals) ==
    [key \in DOMAIN tbl \cup DOMAIN totals |->
        IF key \in DOMAIN totals
        THEN (IF key \in DOMAIN tbl THEN SqlAdd(tbl[key], totals[key]) ELSE totals[key])
        ELSE tbl[key]]

\* a plain INSERT that leaves an existing total alone
UpsertTotals_keep_prior(tbl, totals) ==
    [key \in DOMAIN tbl \cup DOMAIN totals |->
        IF key \in DOMAIN tbl THEN tbl[key] ELSE totals[key]]

\* INSERT ... ON DUPLICATE KEY UPDATE unloading_cost_total = VALUES(...)
UpsertTotals(tbl, totals) ==
    [key \in DOMAIN tbl \cup DOMAIN totals |->
        IF key \in DOMAIN totals THEN totals[key] ELSE tbl[key]]

\* the daily total table after the call
update_daily_unloading_cost_total(m, d, tbl, inven_nos) ==
    LET unique_inven_nos == {inven_nos[i] : i \in 1..Len(inven_nos)} \ {NULL, EMPTY}
        impacted_rows == ImpactedKeys(m, d, unique_inven_nos)
        totals == Totals(m, d, impacted_rows, unique_inven_nos)
    IN  IF unique_inven_nos = {} THEN tbl
        ELSE IF impacted_rows = {} THEN tbl
        ELSE IF DOMAIN totals = {} THEN tbl
        ELSE UpsertTotals(tbl, totals)

(***************************************************************************)
(* Schema Resolver.  The columns of the reference table are the sequence   *)
(* of names that information_schema returns.                               *)
(***************************************************************************)
\* lines 26-54
SAHACACODE_COLUMN_CANDIDATES ==
    [ selfGoodCd |->
        << <<"s", "e", "l", "f", "G", "o", "o", "d", "C", "d">>,
           <<"s", "e", "l", "f", "_", "g", "o", "o", "d", "_", "c", "d">>,
           <<"S", "E", "L", "F", "G", "O", "O", "D", "C", "D">>,
           <<"S", "E", "L", "F", "_", "G", "O", "O", "D", "_", "C", "D">>,
           <<"s", "e", "l", "f", "g", "o", "o", "d", "c", "d">>,
           <<"S", "E", "L", "F", "G", "O", "O", "D", "C", "D">>,
           <<"h", "a", "c", "a", "i", "t", "e", "m">> >>,
      unitQuantity |->
        << <<"u", "n", "i", "t", "Q", "u", "a", "n", "t", "i", "t", "y">>,
           <<"u", "n", "i", "t", "_", "q", "u", "a", "n", "t", "i", "t", "y">>,
           <<"U", "N", "I", "T", "Q", "U", "A", "N", "T", "I", "T", "Y">>,
           <<"U", "N", "I", "T", "_", "Q", "U", "A", "N", "T", "I", "T", "Y">>,
           <<"u", "n", "i", "t", "q", "t", "y">>,
           <<"u", "n", "i", "t", "Q", "t", "y">>,
           <<"h", "a", "c", "a", "w", "e", "i", "t">> >>,
      hacaamnt |->
        << <<"h", "a", "c", "a", "a", "m", "n", "t">>,
           <<"h", "a", "c", "a", "_", "a", "m", "n", "t">>,
           <<"H", "A", "C", "A", "A", "M", "N", "T">>,
           <<"H", "A", "C", "A", "_", "A", "M", "N", "T">>,
           <<"h", "a", "c", "a", "A", "m", "t">>,
           <<"H", "A", "C", "A", "A", "M", "T">>,
           <<"h", "a", "c", "a", "_", "a", "m", "o", "u", "n", "t">> >> ]
\* the logical names in the order of the dict
LogicalNames == <<"selfGoodCd", "unitQuantity", "hacaamnt">>

\* str.isalnum(), for one character
IsAlnum(ch) ==
    \/ IsDigit(ch)
    \/ \E i \in 1..26 : ch \in {UpperCase[i], LowerCase[i]}

\* lines 230-231
_col_key(name) == SelectSeq(Lower(name), IsAlnum)

\* lines 233-243: key -> column; of the columns with one key the last stays
Existing(columns) ==
    [key \in {_col_key(columns[i]) : i \in 1..Len(columns)} |->
        columns[CHOOSE i \in 1..Len(columns) :
                    /\ _col_key(columns[i]) = key
                    /\ \A j \in (i + 1)..Len(columns) : _col_key(columns[j]) # key]]

\* lines 247-252: the column of the first candidate whose key exists, or None
RECURSIVE Matched(_, _, _)
Matched(existing, candidates, i) ==
    IF i > Len(candidates) THEN NULL
    ELSE IF _col_key(candidates[i]) \in DOMAIN existing
         THEN existing[_col_key(candidates[i])]
         ELSE Matched(existing, candidates, i + 1)

\* the column map, and the exception that line 254 raises when a logical name
\* has no column
_resolve_sahacacode_columns(columns) ==
    Then([name \in DOMAIN SAHACACODE_COLUMN_CANDIDATES |->
              Matched(Existing(columns), SAHACACODE_COLUMN_CANDIDATES[name], 1)],
         LAMBDA column_map :
             [error |-> IF \E i \in 1..Len(LogicalNames) : column_map[LogicalNames[i]] = NULL
                        THEN "KeyError" ELSE "none",
              column_map |-> column_map])

(***************************************************************************)
(* Item extraction.  A parsed JSON value carries its Python type t; a list *)
(* or a string holds its elements in v, a dict holds in d the function     *)
(* from its keys to JSON values.                                           *)
(***************************************************************************)
JList(v) == [t |-> "list", v |-> v, d |-> <<>>]
JDict(d) == [t |-> "dict", v |-> <<>>, d |-> d]
JStr(v) == [t |-> "str", v |-> v, d |-> <<>>]
JNone == [t |-> "None", v |-> <<>>, d |-> <<>>]

\* isinstance(x, list), isinstance(x, dict)
IsList(x) == x.t = "list"
IsDict(x) == x.t = "dict"

\* d.get(key)
JGet(dict, key) == IF key \in DOMAIN dict.d THEN dict.d[key] ELSE JNone

\* the nested keys in the reverse of their order
NestedKeys_reversed == <<"rows", "data", "items", "list">>
\* line 279
NestedKeys == <<"list", "items", "data", "rows">>
\* line 274
EnvelopeKeys == <<"body", "data", "list", "items", "result", "rows">>

\* lines 279-282: the first list under a nested key, None when there is none
RECURSIVE PickNested(_, _)
PickNested(candidate, i) ==
    IF i > Len(NestedKeys) THEN JNone
    ELSE Then(JGet(candidate, NestedKeys[i]),
              LAMBDA nested : IF IsList(nested) THEN nested
                              ELSE PickNested(candidate, i + 1))

\* lines 274-284: the envelope keys from the i-th on
RECURSIVE PickFrom(_, _)
PickFrom(payload, i) ==
    IF i > Len(EnvelopeKeys) THEN <<>>
    ELSE Then(JGet(payload, EnvelopeKeys[i]),
              LAMBDA candidate :
                  IF IsList(candidate) THEN candidate.v
                  ELSE IF IsDict(candidate) /\ IsList(PickNested(candidate, 1))
                       THEN PickNested(candidate, 1).v
                       ELSE PickFrom(payload, i + 1))

pick_items(payload) ==
    IF IsList(payload) THEN payload.v
    ELSE IF IsDict(payload) THEN PickFrom(payload, 1)
    ELSE <<>>

(***************************************************************************)
(* Audit Log Recorder.                                                     *)
(***************************************************************************)
AuditRow(flag_success, status, tot_cnt) ==
    [flag_success |-> flag_success, status |-> status, tot_cnt |-> tot_cnt]

insert_api_log(log, row) == Append(log, row)

\* A connection of its own: when connecting, the insert or the commit fails
\* (ok = FALSE) the error is logged and swallowed, and no row is written.
log_api_with_conf(log, row, ok) == IF ok THEN insert_api_log(log, row) ELSE log

(***************************************************************************)
(* The inputs: API items over a small vocabulary.                          *)
(***************************************************************************)
InvenNos == { <<"M", "1">>, <<"M", "2">> }
LineNos == { <<"L", "1">> }

MasterFields ==
    { [shipDate |-> <<"D", "1">>, chkDate |-> NULL, shipName |-> <<"a">>],
      [shipDate |-> <<"D", "2">>, chkDate |-> EMPTY, shipName |-> NULL],
      [shipDate |-> <<"D", "1">>, chkDate |-> <<"C">>, shipName |-> NULL] }

DetailFields ==
    { [proDecNo |-> <<"P", "1">>, selfGoodCd |-> <<"G", "1">>, selfSanCd |-> <<"S">>,
       unitQuantity |-> <<"5", ".", "0">>, shipQuantity |-> <<"2">>],
      [proDecNo |-> <<"P", "1">>, selfGoodCd |-> <<"G", "1">>, selfSanCd |-> <<"S">>,
       unitQuantity |-> <<"5">>, shipQuantity |-> <<"1">>],
      [proDecNo |-> <<"P", "1">>, selfGoodCd |-> <<"G", "2">>, selfSanCd |-> <<"S">>,
       unitQuantity |-> <<"5">>, shipQuantity |-> <<"2">>] }

DetailItems ==
    { [invenDetNo |-> ln, proDecNo |-> f.proDecNo, selfGoodCd |-> f.selfGoodCd,
       selfSanCd |-> f.selfSanCd, unitQuantity |-> f.unitQuantity,
       shipQuantity |-> f.shipQuantity] : ln \in LineNos, f \in DetailFields }

SeqsUpTo(S, n) == UNION {[1..k -> S] : k \in 0..n}

\* the first declaration arrives in each version of its header, the other
\* declarations in the first one only
HeaderVersions(id) ==
    IF id = <<"M", "1">> THEN MasterFields
    ELSE {f \in MasterFields : f.chkDate = NULL}

MasterItems ==
    { [invenNo |-> x[1], shipDate |-> x[2].shipDate, chkDate |-> x[2].chkDate,
       shipName |-> x[2].shipName, detailList |-> x[3]] :
         x \in {y \in InvenNos \X MasterFields \X SeqsUpTo(DetailItems, MaxLines) :
                  y[2] \in HeaderVersions(y[1])} }

Batches == SeqsUpTo(MasterItems, MaxItems) \ {<<>>}

\* responses that are well-formed JSON: lists and envelopes without items, null,
\* and one envelope that holds an item
Responses ==
    { JList(<<>>),
      JNone,
      JDict(<<>>),
      JDict("data" :> JList(<<>>)),
      JDict("body" :> JDict("items" :> JList(<<>>))),
      JDict("meta" :> JList(<<"a">>)),
      JDict("data" :> JList(<<"a">>)) }
\* the responses of one item
SingleBatches == {items \in Batches : Len(items) = 1}

(***************************************************************************)
(* main().                                                                 *)
(***************************************************************************)
Db(m, d, t, l) == [master |-> m, detail |-> d, daily |-> t, api_log |-> l]
CurrentDb == Db(master, detail, daily, api_log)

\* the statements of the business transaction, lines 586-603, in order
Steps == <<"upsert_master", "populate_sahaca_amount", "upsert_detail",
           "update_daily_unloading_cost_total", "insert_api_log", "commit">>
StepNo(name) == CHOOSE i \in 1..Len(Steps) : Steps[i] = name

\* [row.get("invenNo") for row in detail_rows]
InvenNosOf(rows) == [i \in 1..Len(rows) |-> rows[i].invenNo]

\* the totals summed from the costs computed for the batch
DetailSteps_batch_costs(db, m1, detail_rows, n) ==
    Then(IF n >= 2 THEN populate_sahaca_amount(detail_rows) ELSE detail_rows,
         LAMBDA costed :
             Then(IF n >= 3 THEN upsert_detail(db.detail, costed) ELSE db.detail,
                  LAMBDA d1 :
                      Db(m1, d1,
                         IF n >= 4
                         THEN update_daily_unloading_cost_total(
                                  m1,
                                  [k \in DOMAIN d1 |->
                                      IF \E i \in 1..Len(costed) : DetailKey(costed[i]) = k
                                      THEN [d1[k] EXCEPT !.sahaca_amount = SqlNumber(
                                               costed[CHOOSE i \in 1..Len(costed) :
                                                   DetailKey(costed[i]) = k].sahaca_amount)]
                                      ELSE d1[k]],
                                  db.daily, InvenNosOf(costed))
                         ELSE db.daily,
                         db.api_log)))

\* lines 588-593: the detail table and the totals after the three detail steps
\* (n is the number of statements executed)
DetailSteps(db, m1, detail_rows, n) ==
    Then(IF n >= 2 THEN populate_sahaca_amount(detail_rows) ELSE detail_rows,
         LAMBDA costed :
             Then(IF n >= 3 THEN upsert_detail(db.detail, costed) ELSE db.detail,
                  LAMBDA d1 :
                      Db(m1, d1,
                         IF n >= 4
                         THEN update_daily_unloading_cost_total(m1, d1, db.daily,
                                                                InvenNosOf(costed))
                         ELSE db.daily,
                         db.api_log)))

\* the uncommitted state of the connection after the first n statements
TxAfter(db, items, n) ==
    Then(BuildMasterRows(items),
         LAMBDA master_rows :
             Then(BuildDetailRows(items),
                  LAMBDA detail_rows :
                      Then(IF n >= 1 /\ master_rows # <<>>
                           THEN upsert_master(db.master, master_rows) ELSE db.master,
                           LAMBDA m1 :
                               Then(IF detail_rows # <<>>
                                    THEN DetailSteps(db, m1, detail_rows, n)
                                    ELSE Db(m1, db.detail, db.daily, db.api_log),
                                    LAMBDA tx :
                                        IF n >= 5
                                        THEN [tx EXCEPT !.api_log = insert_api_log(
                                                  @, AuditRow(1, "success", Len(items)))]
                                        ELSE tx))))

\* whether main() executes the statement for this batch
StepRuns(items, name) ==
    CASE name = "upsert_master" -> BuildMasterRows(items) # <<>>
      [] name = "populate_sahaca_amount" ->
            \E i \in 1..Len(BuildDetailRows(items)) :
                _normalize_good_code(BuildDetailRows(items)[i].selfGoodCd) # NULL
      [] name \in {"upsert_detail", "update_daily_unloading_cost_total"} ->
            BuildDetailRows(items) # <<>>
      [] OTHER -> TRUE

\* every statement committed as it ran (autocommit on)
Rollback_keeps(committed, working) == working

\* conn.commit() makes the uncommitted state the committed one;
\* conn.rollback() (autocommit is off) returns to the committed one
Commit(committed, working) == working
Rollback(committed, working) == committed

\* lines 605-620: rollback, then the failure row on the same connection
AfterFailure(committed, working, audit_ok) ==
    LET back == Rollback(committed, working)
    IN  [back EXCEPT !.api_log =
            IF audit_ok THEN insert_api_log(@, AuditRow(0, "fail", 0)) ELSE @]

\* what is recorded of an invocation: how it ended (path, and the statement
\* that raised), the items of its response, those of the committed response
\* before it (prev, kept by SpecOrder only), and whether the rows it names
\* were all open or new (pre_open), all present (pre_exist) before it
\* (SpecConfig also keeps the columns of the reference table and tx, the
\* uncommitted state of the connection when the resolver raised)
NoRun ==
    [path |-> "idle", fail |-> "none", items |-> <<>>, prev |-> <<>>,
     pre_open |-> FALSE, pre_exist |-> FALSE, payload |-> JNone, audit_ok |-> FALSE,
     columns |-> <<>>, tx |-> Db(EmptyMap, EmptyMap, EmptyMap, <<>>)]
Outcome(path) == [NoRun EXCEPT !.path = path]

BatchMasterKeys(items) == {build_master_row(items[i]).invenNo : i \in 1..Len(items)}
\* the declaration ids of the detail rows: what main() passes to the aggregation
BatchDetailKeysIds(items) ==
    {BuildDetailRows(items)[i].invenNo : i \in 1..Len(BuildDetailRows(items))}
BatchDetailKeys(items) ==
    {DetailKey(BuildDetailRows(items)[i]) : i \in 1..Len(BuildDetailRows(items))}

\* every row of the ledger that the batch names is open (or the key is new)
BatchRowsOpen(items) ==
    /\ \A id \in BatchMasterKeys(items) : id \in DOMAIN master => MasterOpen(master[id])
    /\ \A key \in BatchDetailKeys(items) : key \in DOMAIN detail => ~DetailFrozen(detail[key])

\* every row that the batch names is in the ledger already
BatchRowsExist(items) ==
    /\ BatchMasterKeys(items) \subseteq DOMAIN master
    /\ BatchDetailKeys(items) \subseteq DOMAIN detail

Committed(items) ==
    [NoRun EXCEPT !.path = "committed", !.items = items,
                  !.pre_open = BatchRowsOpen(items), !.pre_exist = BatchRowsExist(items)]

SetDb(db) ==
    /\ master' = db.master
    /\ detail' = db.detail
    /\ daily' = db.daily
    /\ api_log' = db.api_log

\* no invocation is in progress; the next one starts
Idle == last.path = "idle"
Started == Idle /\ nruns < MaxRuns /\ nruns' = nruns + 1

\* SERVICE_KEY is not set: lines 491-494
MainNoServiceKey ==
    /\ Started
    /\ last' = Outcome("no_service_key")
    /\ UNCHANGED <<master, detail, daily, api_log>>

\* fetch_inven_json raises one of the three caught exceptions: lines 526-561
MainFetchError ==
    /\ Started
    /\ \E kind \in {"HTTPError", "URLError", "JSONDecodeError"}, audit_ok \in BOOLEAN :
        /\ api_log' = log_api_with_conf(api_log, AuditRow(0, "fail", 0), audit_ok)
        /\ last' = Outcome(kind)
    /\ UNCHANGED <<master, detail, daily>>

\* the audit row of an empty result with another outcome
EmptyResultRow_success == AuditRow(1, "success", 0)
\* lines 516-524: the audit row of an empty result
EmptyResultRow == AuditRow(0, "fail", 0)

\* pick_items finds no item: lines 512-525; the payload of the response and
\* whether the audit store took the row (audit_ok) are recorded
MainEmpty ==
    /\ Started
    /\ \E payload \in Responses, audit_ok \in BOOLEAN :
        /\ pick_items(payload) = <<>>
        /\ api_log' = log_api_with_conf(api_log, EmptyResultRow, audit_ok)
        /\ last' = [Outcome("empty") EXCEPT !.payload = payload, !.audit_ok = audit_ok]
    /\ UNCHANGED <<master, detail, daily>>

\* pymysql.connect fails: lines 570-583
MainConnectFail ==
    /\ Started
    /\ \E audit_ok \in BOOLEAN :
        api_log' = log_api_with_conf(api_log, AuditRow(0, "fail", 0), audit_ok)
    /\ last' = Outcome("connect_failed")
    /\ UNCHANGED <<master, detail, daily>>

\* the business transaction commits: lines 585-604
MainCommit ==
    /\ Started
    /\ \E items \in Batches :
        /\ \E db \in {Commit(CurrentDb, TxAfter(CurrentDb, items, Len(Steps)))} : SetDb(db)
        /\ last' = Committed(items)

\* the next invocation receives the identical response and commits too
MainCommitAgain ==
    /\ last.path = "committed"
    /\ nruns' = nruns + 1
    /\ \E db \in {Commit(CurrentDb, TxAfter(CurrentDb, last.items, Len(Steps)))} : SetDb(db)
    /\ last' = [last EXCEPT !.path = "committed_again"]

\* a statement of the business transaction raises: lines 605-620
MainRollback ==
    /\ Started
    /\ \E items \in SingleBatches, fail \in {Steps[i] : i \in 1..Len(Steps)},
          audit_ok \in BOOLEAN :
        /\ StepRuns(items, fail)
        /\ \E db \in {AfterFailure(CurrentDb, TxAfter(CurrentDb, items, StepNo(fail) - 1),
                                    audit_ok)} : SetDb(db)
        /\ last' = [Outcome("rolled_back") EXCEPT !.fail = fail]

(***************************************************************************)
(* The ERP marks a detail line as applied (flag_erp_apply = 1); nothing in *)
(* main.py writes that column.                                             *)
(***************************************************************************)
ErpApply ==
    /\ Idle
    /\ \E key \in DOMAIN detail :
        /\ ~DetailFrozen(detail[key])
        /\ detail' = [detail EXCEPT ![key].flag_erp_apply = 1]
    /\ UNCHANGED <<master, daily, api_log, nruns, last>>

\* the process of the invocation ends; its payload is gone
Exit ==
    /\ ~Idle
    /\ last' = NoRun
    /\ UNCHANGED <<master, detail, daily, api_log, nruns>>

Init ==
    /\ master = EmptyMap
    /\ detail = EmptyMap
    /\ daily = EmptyMap
    /\ api_log = <<>>
    /\ nruns = 0
    /\ last = NoRun

Next ==
    \/ MainNoServiceKey
    \/ MainFetchError
    \/ MainEmpty
    \/ MainConnectFail
    \/ MainCommit
    \/ MainCommitAgain
    \/ MainRollback
    \/ ErpApply
    \/ Exit

Spec == Init /\ [][Next]_vars

(***************************************************************************)
(* SpecOrder: invocations that each receive one item and commit, in every  *)
(* order; the response committed before the latest one is kept in          *)
(* last.prev.                                                              *)
(***************************************************************************)
OrderCommit ==
    /\ nruns < MaxRuns
    /\ nruns' = nruns + 1
    /\ \E items \in SingleBatches :
        /\ \E db \in {Commit(CurrentDb, TxAfter(CurrentDb, items, Len(Steps)))} : SetDb(db)
        /\ last' = [Committed(items) EXCEPT !.prev = last.items]

NextOrder == OrderCommit

SpecOrder == Init /\ [][NextOrder]_vars


(***************************************************************************)
(* Properties.                                                             *)
(***************************************************************************)
\* an invocation that committed has just ended
RunCommitted == last.path \in {"committed", "committed_again"}
\* the step is an invocation that commits
CommitStep == nruns' = nruns + 1 /\ last'.path \in {"committed", "committed_again"}

CostedRows(items) == populate_sahaca_amount(BuildDetailRows(items))
Sightings(items, id) == {i \in 1..Len(items) : build_master_row(items[i]).invenNo = id}

\* the aggregation keys of a detail line of the ledger
LineAggKeys(m, d, k) ==
    IF k[1] \notin DOMAIN m \/ d[k].proDecNo = NULL THEN {}
    ELSE {<<m[k[1]].shipDate, cm.chulcode, cm.chcdcode, d[k].selfSanCd, d[k].selfGoodCd>> :
            cm \in {c \in ChulcodeMatching : c.proDecNo = d[k].proDecNo}}

RECURSIVE SumLines(_, _)
SumLines(d, ks) ==
    IF ks = {} THEN SqlZero
    ELSE Then(CHOOSE k \in ks : TRUE,
              LAMBDA k : SqlAdd(d[k].sahaca_amount, SumLines(d, ks \ {k})))

\* the sum of the persisted cost of all detail lines of the ledger with the key
LedgerTotal(m, d, key) == SumLines(d, {k \in DOMAIN d : key \in LineAggKeys(m, d, k)})

\* the fully resolved keys of the lines of the given declarations
KeysOfDeclarations(m, d, ids) ==
    {key \in UNION {LineAggKeys(m, d, k) : k \in {x \in DOMAIN d : x[1] \in ids}} :
        NoNull(key)}

\* the stored header carries a confirmation date
Confirmed(row) == row.chkDate # NULL /\ row.chkDate # EMPTY

\* C1: no step changes any column of a master row whose stored chkDate is
\* non-empty: the row is still there and equal, chkDate included, whatever
\* the batch carries and however often it names the declaration.
Thm_C1_MasterFreeze ==
    [][\A id \in DOMAIN master :
          Confirmed(master[id]) => (id \in DOMAIN master' /\ master'[id] = master[id])]_vars

\* a committed batch named a finalized declaration twice, with open headers
\* that differ from the stored row
Wit_C1_MasterFreeze ==
    /\ last.path = "committed"
    /\ \E id \in DOMAIN master :
        /\ Confirmed(master[id])
        /\ Cardinality(Sightings(last.items, id)) >= 2
        /\ \A i \in Sightings(last.items, id) :
              /\ ~Confirmed(build_master_row(last.items[i]))
              /\ build_master_row(last.items[i]) # master[id]
              /\ build_master_row(last.items[i]).shipDate # master[id].shipDate

\* C2: no step changes any column of a detail row whose flag_erp_apply is 1,
\* sahaca_amount included.
Thm_C2_DetailFreeze ==
    [][\A key \in DOMAIN detail :
          DetailFrozen(detail[key]) => (key \in DOMAIN detail' /\ detail'[key] = detail[key])]_vars

\* a committed batch carried a finalized line with another good code and
\* another computed cost
Wit_C2_DetailFreeze ==
    /\ last.path = "committed"
    /\ \E i \in 1..Len(CostedRows(last.items)) :
          LET row == CostedRows(last.items)[i]
              key == DetailKey(row)
          IN  /\ key \in DOMAIN detail
              /\ DetailFrozen(detail[key])
              /\ SqlNumber(row.sahaca_amount) # detail[key].sahaca_amount
              /\ row.selfGoodCd # detail[key].selfGoodCd

\* C3, the rule the claim states, row by row in batch order: a new key is
\* created with the incoming values, an open row takes every incoming value
\* (flag_erp_apply is no business field), a finalized row stays.
ClaimMasterRow(tbl, row) ==
    IF row.invenNo \notin DOMAIN tbl
    THEN [k \in DOMAIN tbl \cup {row.invenNo} |-> IF k = row.invenNo THEN row ELSE tbl[k]]
    ELSE IF MasterOpen(tbl[row.invenNo]) THEN [tbl EXCEPT ![row.invenNo] = row]
    ELSE tbl

RECURSIVE ClaimMaster(_, _, _)
ClaimMaster(tbl, rows, i) ==
    IF i > Len(rows) THEN tbl
    ELSE Then(ClaimMasterRow(tbl, rows[i]), LAMBDA nxt : ClaimMaster(nxt, rows, i + 1))

ClaimDetailRow(tbl, row) ==
    LET key == DetailKey(row)
    IN  IF key \notin DOMAIN tbl
        THEN [k \in DOMAIN tbl \cup {key} |-> IF k = key THEN DetailStored(row) ELSE tbl[k]]
        ELSE IF ~DetailFrozen(tbl[key])
        THEN [tbl EXCEPT ![key] =
                 [DetailStored(row) EXCEPT !.flag_erp_apply = tbl[key].flag_erp_apply]]
        ELSE tbl

RECURSIVE ClaimDetail(_, _, _)
ClaimDetail(tbl, rows, i) ==
    IF i > Len(rows) THEN tbl
    ELSE Then(ClaimDetailRow(tbl, rows[i]), LAMBDA nxt : ClaimDetail(nxt, rows, i + 1))

\* C3: after a committed run the master and detail tables are what the rule
\* gives: each row that was open at its write holds the incoming values
\* (absent ones and chkDate included), each new key the incoming row.
Thm_C3_OpenOverwrite ==
    [][CommitStep =>
          /\ \A rows \in {BuildMasterRows(last'.items)} :
                 master' = ClaimMaster(master, rows, 1)
          /\ \A rows \in {CostedRows(last'.items)} :
                 detail' = ClaimDetail(detail, rows, 1)]_vars

\* all rows the batch named were there and open; the header came with a
\* chkDate and without a shipName, and the row has both; the line is stored
\* with its computed cost
Wit_C3_OpenOverwrite ==
    /\ last.path = "committed"
    /\ last.pre_open
    /\ last.pre_exist
    /\ \E i \in 1..Len(last.items) :
          LET row == build_master_row(last.items[i])
          IN  /\ ~MasterOpen(row)
              /\ row.shipName = NULL
              /\ master[row.invenNo] = row
    /\ \E i \in 1..Len(CostedRows(last.items)) :
          LET row == CostedRows(last.items)[i]
          IN  /\ detail[DetailKey(row)].sahaca_amount = SqlNumber(row.sahaca_amount)
              /\ detail[DetailKey(row)].selfGoodCd = row.selfGoodCd
              /\ detail[DetailKey(row)].sahaca_amount # SqlZero

\* C4: when the rows a batch names were open or absent and the batch was
\* committed, committing the identical batch again changes no master row,
\* no detail row and no daily total.
Thm_C4_Idempotent ==
    [][(last.path = "committed" /\ last.pre_open /\ last'.path = "committed_again") =>
          (master' = master /\ detail' = detail /\ daily' = daily)]_vars

\* the batch was committed twice over rows that existed and were open, and
\* it has lines that count in a total
Wit_C4_Idempotent ==
    /\ last.path = "committed_again"
    /\ last.pre_open
    /\ last.pre_exist
    /\ BuildDetailRows(last.items) # <<>>
    /\ \E key \in DOMAIN daily : daily[key] # SqlZero
    /\ Len(api_log) >= 3

\* C5 as claimed: every stored daily total is the sum of the persisted cost
\* of the detail lines that have its key now.
Cex_C5_TotalsConsistent ==
    \A key \in DOMAIN daily : daily[key] = LedgerTotal(master, detail, key)

\* C6: after a committed run, every fully resolved key of the lines of the
\* touched declarations has a daily total, equal to the sum over all lines of
\* the ledger with that key.
Thm_C6_FullRecompute ==
    RunCommitted =>
        \A key \in KeysOfDeclarations(master, detail, BatchDetailKeysIds(last.items)) :
            key \in DOMAIN daily /\ daily[key] = LedgerTotal(master, detail, key)

\* a total of 150 for a key of the batch, 100 of it from a line of a
\* declaration that the batch does not name
Wit_C6_FullRecompute ==
    /\ last.path = "committed"
    /\ \E key \in KeysOfDeclarations(master, detail, BatchDetailKeysIds(last.items)) :
        /\ daily[key] = Num(150)
        /\ \E k \in DOMAIN detail :
              /\ k[1] \notin BatchDetailKeysIds(last.items)
              /\ key \in LineAggKeys(master, detail, k)
              /\ detail[k].sahaca_amount = Num(100)

RECURSIVE SumComputed(_, _)
SumComputed(rows, i) ==
    IF i > Len(rows) THEN SqlZero
    ELSE SqlAdd(SqlNumber(rows[i].sahaca_amount), SumComputed(rows, i + 1))

\* the sum of the costs computed for the lines of a response
BatchCost(items) == SumComputed(CostedRows(items), 1)

\* the lines of the response have distinct (invenNo, invenDetNo) keys
DistinctLines(items) == Cardinality(BatchDetailKeys(items)) = Len(BuildDetailRows(items))

\* two committed responses whose lines all have distinct keys, and key is
\* the key of all their lines and of no other line of the ledger
OrderCase(key) ==
    /\ last.path = "committed"
    /\ DistinctLines(last.prev)
    /\ DistinctLines(last.items)
    /\ BatchDetailKeys(last.prev) # {}
    /\ BatchDetailKeys(last.items) # {}
    /\ BatchDetailKeys(last.prev) \cap BatchDetailKeys(last.items) = {}
    /\ {k \in DOMAIN detail : key \in LineAggKeys(master, detail, k)}
           = BatchDetailKeys(last.prev) \cup BatchDetailKeys(last.items)

\* C7: when two invocations commit disjoint lines of one aggregation key,
\* the total of the key after the second is the sum of both costs,
\* whichever came first.
Thm_C7_OrderIndependent ==
    \A key \in KeysOfDeclarations(master, detail, DOMAIN master) :
        OrderCase(key) =>
            /\ key \in DOMAIN daily
            /\ daily[key] = SqlAdd(BatchCost(last.prev), BatchCost(last.items))

\* a line of 100, then a line of 50 of another declaration: the total is 150
Wit_C7_OrderIndependent ==
    \E key \in DOMAIN daily :
        /\ OrderCase(key)
        /\ BatchCost(last.prev) = Num(100)
        /\ BatchCost(last.items) = Num(50)
        /\ daily[key] = Num(150)

\* a line of the response is finalized in the ledger and its computed cost
\* is not the persisted one
Discarded(d, row) ==
    /\ DetailKey(row) \in DOMAIN d
    /\ DetailFrozen(d[DetailKey(row)])
    /\ SqlNumber(row.sahaca_amount) # d[DetailKey(row)].sahaca_amount

\* C8: when a committed run carries a finalized line whose computed cost
\* differs from the persisted one, the persisted cost stays and the totals of
\* the line's keys are the sums of the persisted costs.
Thm_C8_DiscardInTotals ==
    [][CommitStep =>
          \A rows \in {CostedRows(last'.items)} :
              \A row \in {rows[i] : i \in 1..Len(rows)} :
                  Discarded(detail, row) =>
                      /\ detail'[DetailKey(row)].sahaca_amount
                             = detail[DetailKey(row)].sahaca_amount
                      /\ \A K \in LineAggKeys(master', detail', DetailKey(row)) :
                            NoNull(K) =>
                                /\ K \in DOMAIN daily'
                                /\ daily'[K] = LedgerTotal(master', detail', K)]_vars

\* such a line was committed, and the total of its key is neither zero nor
\* what the computed cost would have given
Wit_C8_DiscardInTotals ==
    /\ last.path = "committed"
    /\ \E i \in 1..Len(CostedRows(last.items)) :
          LET row == CostedRows(last.items)[i]
              key == DetailKey(row)
          IN  /\ Discarded(detail, row)
              /\ \E K \in LineAggKeys(master, detail, key) :
                    /\ NoNull(K)
                    /\ daily[K] = LedgerTotal(master, detail, K)
                    /\ daily[K] = detail[key].sahaca_amount
                    /\ daily[K] # SqlZero

\* C9: an invocation either commits, and then every row it names is in the
\* ledger, the keys of its declarations have totals and the success audit
\* row is appended; or it leaves master, detail and totals as they were and
\* appends no success row.
Thm_C9_Atomic ==
    [][nruns' = nruns + 1 =>
          IF last'.path \in {"committed", "committed_again"}
          THEN /\ api_log' = Append(api_log, AuditRow(1, "success", Len(last'.items)))
               /\ BatchMasterKeys(last'.items) \subseteq DOMAIN master'
               /\ BatchDetailKeys(last'.items) \subseteq DOMAIN detail'
               /\ KeysOfDeclarations(master', detail', BatchDetailKeysIds(last'.items))
                      \subseteq DOMAIN daily'
          ELSE /\ master' = master
               /\ detail' = detail
               /\ daily' = daily
               /\ api_log' \in {api_log, Append(api_log, AuditRow(0, "fail", 0))}]_vars

\* the first invocation failed at the commit, after all its writes: the
\* ledger is empty and the audit log holds one failure row
Wit_C9_Atomic ==
    /\ last.path = "rolled_back"
    /\ last.fail = "commit"
    /\ nruns = 1
    /\ DOMAIN master = {}
    /\ DOMAIN detail = {}
    /\ DOMAIN daily = {}
    /\ api_log = <<AuditRow(0, "fail", 0)>>

\* C10 as claimed: the audit log holds one row per invocation.
Cex_C10_OneAuditRow == Len(api_log) = nruns

\* C12: an invocation whose response is well-formed and yields no item leaves
\* master, detail and totals as they were and, when the audit store takes the
\* row, appends exactly one audit row: flag_success 0, status "fail", count 0.
Thm_C12_EmptyResult ==
    [][(nruns' = nruns + 1 /\ last'.path = "empty")
          => /\ master' = master
             /\ detail' = detail
             /\ daily' = daily
             /\ api_log' = IF last'.audit_ok
                           THEN Append(api_log, [flag_success |-> 0, status |-> "fail",
                                                 tot_cnt |-> 0])
                           ELSE api_log]_vars

\* after a committed invocation, one whose envelope holds an empty list under
\* data: the ledger is as committed and the log ends with the failure row
Wit_C12_EmptyResult ==
    /\ nruns = 2
    /\ last.path = "empty"
    /\ last.audit_ok
    /\ last.payload = JDict("data" :> JList(<<>>))
    /\ DOMAIN master # {}
    /\ Len(api_log) = 2
    /\ api_log[1].status = "success"
    /\ api_log[2] = [flag_success |-> 0, status |-> "fail", tot_cnt |-> 0]

\* C11 as claimed: when the write of the audit row fails, the failure is only
\* reported: the master, detail and total writes of the invocation stay.
Cex_C11_AuditFailureKeepsWrites ==
    [][(nruns' = nruns + 1 /\ last'.path = "rolled_back" /\ last'.fail = "insert_api_log")
          => \E items \in SingleBatches :
                 \E tx \in {TxAfter(CurrentDb, items, StepNo("insert_api_log") - 1)} :
                     /\ master' = tx.master
                     /\ detail' = tx.detail
                     /\ daily' = tx.daily]_vars

\* the step is an invocation of main(), however it ends
RunStep == nruns' = nruns + 1

\* the last row of the batch with this detail key, the first row of the batch
\* with this declaration id and a confirmation date
LastLine(rows, key) ==
    CHOOSE i \in 1..Len(rows) :
        /\ DetailKey(rows[i]) = key
        /\ \A j \in (i + 1)..Len(rows) : DetailKey(rows[j]) # key
FirstConfirmed(rows, id) ==
    CHOOSE i \in 1..Len(rows) :
        /\ rows[i].invenNo = id /\ Confirmed(rows[i])
        /\ \A j \in 1..(i - 1) : ~(rows[j].invenNo = id /\ Confirmed(rows[j]))

\* no invocation changes flag_erp_apply of a stored line
FlagKept ==
    \A key \in DOMAIN detail :
        key \in DOMAIN detail' /\ detail'[key].flag_erp_apply = detail[key].flag_erp_apply

\* a stored line that the committed batch names takes the incoming line when
\* its own flag is not 1, and stays when it is 1, whatever its declaration
LineByOwnFlag(rows) ==
    \A key \in DOMAIN detail \cap {DetailKey(rows[i]) : i \in 1..Len(rows)} :
        detail'[key] =
            IF DetailFrozen(detail[key]) THEN detail[key]
            ELSE [DetailStored(rows[LastLine(rows, key)])
                     EXCEPT !.flag_erp_apply = detail[key].flag_erp_apply]

\* a stored open declaration for which the committed batch carries a
\* confirmation date holds every field of the first row that carries one
OpenTakesConfirmed(rows) ==
    \A id \in DOMAIN master :
        (MasterOpen(master[id])
            /\ \E i \in 1..Len(rows) : rows[i].invenNo = id /\ Confirmed(rows[i]))
        => (master'[id] = rows[FirstConfirmed(rows, id)] /\ Confirmed(master'[id]))

\* C21: no invocation changes flag_erp_apply of a stored detail row; in a
\* committed run a stored detail row is overwritten exactly when its own flag
\* is not 1, whether or not its master is finalized; and a stored open master
\* for which the batch carries a non-empty chkDate takes every field of that
\* incoming row and is finalized after the run.
Thm_C21_FinalizeMarkerFrame ==
    [][/\ RunStep => FlagKept
       /\ CommitStep =>
             /\ \A rows \in {CostedRows(last'.items)} : LineByOwnFlag(rows)
             /\ \A rows \in {BuildMasterRows(last'.items)} : OpenTakesConfirmed(rows)]_vars

\* the second invocation committed a batch over rows that all existed: the
\* declaration was finalized before it (the stored header is none of the
\* batch's), and its open line holds the incoming line of the batch
Wit_C21_FinalizeMarkerFrame ==
    /\ nruns = 2
    /\ last.path = "committed"
    /\ last.pre_exist
    /\ \E i \in 1..Len(CostedRows(last.items)) :
          \E row \in {CostedRows(last.items)[i]} :
              /\ Confirmed(master[row.invenNo])
              /\ \A j \in Sightings(last.items, row.invenNo) :
                    build_master_row(last.items[j]) # master[row.invenNo]
              /\ ~DetailFrozen(detail[DetailKey(row)])
              /\ detail[DetailKey(row)] = DetailStored(row)
              /\ detail[DetailKey(row)].sahaca_amount # SqlZero

(***************************************************************************)
(* SpecNorm: _normalize_unit_quantity applied to every quantity string of  *)
(* a bounded set.                                                          *)
(***************************************************************************)
MaxQuantityLen == 3
QuantityChars == {"5", "0", ".", "-", " ", "a"}
QuantityStrings ==
    SeqsUpTo(QuantityChars, MaxQuantityLen)
        \cup { <<"5", ".", "0", "0">>, <<"5", ".", "5", "0">>, <<"0", ".", "0", "5", "0">>,
               <<"5", "E", "+", "1">>, <<"5", "e", "1">>, <<"+", "5">>,
               <<"I", "n", "f">>, <<"i", "n", "f", "i", "n", "i", "t", "y">>,
               <<"N", "a", "N">>, <<"n", "a", "n">> }

InitNorm ==
    /\ master = EmptyMap
    /\ detail = EmptyMap
    /\ daily = EmptyMap
    /\ api_log = <<>>
    /\ nruns = 0
    /\ \E value \in QuantityStrings : last = [value |-> value, done |-> FALSE, key |-> NULL]

NormalizeQuantity ==
    /\ ~last.done
    /\ last' = [last EXCEPT !.done = TRUE, !.key = _normalize_unit_quantity(last.value)]
    /\ UNCHANGED <<master, detail, daily, api_log, nruns>>

NextNorm == NormalizeQuantity

SpecNorm == InitNorm /\ [][NextNorm]_vars

\* the two strings parse as finite decimals of equal value
SameNumber(a, b) ==
    /\ ParseDecimal(a).ok
    /\ ParseDecimal(b).ok
    /\ IsFinite(ParseDecimal(a).d)
    /\ IsFinite(ParseDecimal(b).d)
    /\ SqlNumber(ParseDecimal(a).d) = SqlNumber(ParseDecimal(b).d)

\* C18 as claimed: two strings of the bounded set that denote the same
\* decimal number normalize to the same key ("5.00" and "5" to "5", "5.50"
\* to "5.5"), a string that does not parse normalizes to its trimmed self,
\* and normalizing the key again gives the key.
Cex_C18_QuantityNormalization ==
    last.done =>
        /\ \A b \in QuantityStrings :
              SameNumber(last.value, b) => _normalize_unit_quantity(b) = last.key
        /\ (last.value \in {<<"5">>, <<"5", ".", "0", "0">>}) => last.key = <<"5">>
        /\ (last.value = <<"5", ".", "5", "0">>) => last.key = <<"5", ".", "5">>
        /\ (~ParseDecimal(last.value).ok /\ Strip(last.value) # <<>>)
              => last.key = Strip(last.value)
        /\ (last.key # NULL) => _normalize_unit_quantity(last.key) = last.key

\* the part of C18 that holds: the same, for strings of equal value and
\* equal sign
Chk_C18_SameSign ==
    last.done =>
        /\ \A b \in QuantityStrings :
              (SameNumber(last.value, b) /\ ParseDecimal(last.value).d.s = ParseDecimal(b).d.s)
                  => _normalize_unit_quantity(b) = last.key
        /\ (last.value \in {<<"5">>, <<"5", ".", "0", "0">>}) => last.key = <<"5">>
        /\ (last.value = <<"5", ".", "5", "0">>) => last.key = <<"5", ".", "5">>
        /\ (~ParseDecimal(last.value).ok /\ Strip(last.value) # <<>>)
              => last.key = Strip(last.value)
        /\ (last.key # NULL) => _normalize_unit_quantity(last.key) = last.key

(***************************************************************************)
(* SpecPick: pick_items applied to every payload of a bounded set: the     *)
(* scalars, the lists, and the mappings of up to MaxEnvelopeKeys keys      *)
(* whose values are scalars, lists or mappings one level deep.             *)
(***************************************************************************)
MaxEnvelopeKeys == 2
ItemLists == {<<>>, <<"a">>, <<"b">>}
Leaves == {JList(l) : l \in ItemLists} \cup {JStr(<<"x">>), JNone}
DictsOver(keys, values, n) ==
    UNION {[ks -> values] : ks \in {k \in SUBSET keys : Cardinality(k) <= n}}

NestedNames == {"list", "items", "data", "rows", "meta"}
NestedDicts ==
    {JDict(f) : f \in DictsOver(NestedNames, {JList(<<"a">>), JList(<<"b">>), JStr(<<"x">>)},
                                MaxEnvelopeKeys)}
EnvelopeNames == {"body", "data", "list", "items", "result", "rows", "meta"}
EnvelopeValues ==
    Leaves \cup {JDict("items" :> JList(<<"b">>)), JDict("meta" :> JList(<<"b">>)),
                 JDict([k \in {} |-> JNone])}
Payloads ==
    Leaves
    \cup {JDict(f) : f \in DictsOver(EnvelopeNames, NestedDicts, 1)}
    \cup {JDict(f) : f \in DictsOver(EnvelopeNames, EnvelopeValues, MaxEnvelopeKeys)}

InitPick ==
    /\ master = EmptyMap
    /\ detail = EmptyMap
    /\ daily = EmptyMap
    /\ api_log = <<>>
    /\ nruns = 0
    /\ \E payload \in Payloads : last = [payload |-> payload, done |-> FALSE, items |-> <<>>]

\* items = pick_items(payload)
PickItems ==
    /\ ~last.done
    /\ last' = [last EXCEPT !.done = TRUE, !.items = pick_items(last.payload)]
    /\ UNCHANGED <<master, detail, daily, api_log, nruns>>

NextPick == PickItems

SpecPick == InitPick /\ [][NextPick]_vars

\* the value under the key holds an item list, itself or one level down
HoldsList(payload, key) ==
    /\ key \in DOMAIN payload.d
    /\ \/ payload.d[key].t = "list"
       \/ /\ payload.d[key].t = "dict"
          /\ \E sub \in {"list", "items", "data", "rows"} :
                /\ sub \in DOMAIN payload.d[key].d
                /\ payload.d[key].d[sub].t = "list"

\* the list that the first of the keys holding one stands for
FirstList(payload, keys, subs) ==
    LET i == CHOOSE n \in 1..Len(keys) :
                 /\ HoldsList(payload, keys[n])
                 /\ \A m \in 1..(n - 1) : ~HoldsList(payload, keys[m])
        c == payload.d[keys[i]]
    IN  IF c.t = "list" THEN c.v
        ELSE LET j == CHOOSE n \in 1..Len(subs) :
                          /\ subs[n] \in DOMAIN c.d /\ c.d[subs[n]].t = "list"
                          /\ \A m \in 1..(n - 1) :
                                ~(subs[m] \in DOMAIN c.d /\ c.d[subs[m]].t = "list")
             IN  c.d[subs[j]].v

\* C19: pick_items returns a list payload unchanged; for a mapping it returns
\* the list of the first of the keys body, data, list, items, result, rows
\* whose value is a list or a mapping holding a list under one of list, items,
\* data, rows (the first of these); so {"data": {"items": L}} gives L, as the
\* payload L does; a mapping with no such key, and a payload that is neither a
\* list nor a mapping, give the empty list.
Thm_C19_EnvelopeExtraction ==
    last.done =>
        LET keys == <<"body", "data", "list", "items", "result", "rows">>
            subs == <<"list", "items", "data", "rows">>
            p == last.payload
        IN  /\ p.t = "list" => last.items = p.v
            /\ p.t \notin {"list", "dict"} => last.items = <<>>
            /\ p.t = "dict" =>
                  IF \E n \in 1..Len(keys) : HoldsList(p, keys[n])
                  THEN last.items = FirstList(p, keys, subs)
                  ELSE last.items = <<>>
            /\ \A L \in ItemLists :
                  p \in {JList(L), JDict("data" :> JDict("items" :> JList(L)))}
                      => last.items = L

\* the list <<"a">> was extracted from {"body": {"meta": [b], "data": [a]}}
Wit_C19_EnvelopeExtraction ==
    /\ last.done
    /\ last.payload = JDict("body" :> JDict(("meta" :> JList(<<"b">>)) @@ ("data" :> JList(<<"a">>))))
    /\ last.items = <<"a">>

(***************************************************************************)
(* SpecAudit: the response_content of the audit rows.  A text is modelled  *)
(* by its number of characters; every path of main() takes a text of every *)
(* length of a bounded set (the serialized payload, or the message of the  *)
(* exception) and hands the audit recorder what the code makes of it.      *)
(***************************************************************************)
ResponseLimit == 5000
MaxChars == 5002
TextLengths == {0, 1, ResponseLimit - 1, ResponseLimit, ResponseLimit + 1, MaxChars}

\* text[:5000]
Cut(text) == Min(text, ResponseLimit)
\* len("JSON decode error")
JsonDecodeErrorText == Len(<<"J", "S", "O", "N", " ", "d", "e", "c", "o", "d", "e", " ",
                             "e", "r", "r", "o", "r">>)

\* the audit row with its response_content
LogRow(flag_success, status, tot_cnt, response_content) ==
    [flag_success |-> flag_success, status |-> status, tot_cnt |-> tot_cnt,
     response_content |-> response_content]

\* responses of one item with one line, for the first declaration
AuditBatches ==
    {items \in SingleBatches :
        /\ items[1].invenNo = <<"M", "1">>
        /\ items[1].chkDate = NULL
        /\ Len(items[1].detailList) = 1}

\* lines 514-525: json.dumps(payload)[:5000]
AuditEmpty ==
    /\ Started
    /\ \E text \in TextLengths, audit_ok \in BOOLEAN :
        api_log' = log_api_with_conf(api_log, LogRow(0, "fail", 0, Cut(text)), audit_ok)
    /\ last' = Outcome("empty")
    /\ UNCHANGED <<master, detail, daily>>

\* lines 526-537: str(e)
AuditHTTPError ==
    /\ Started
    /\ \E text \in TextLengths, audit_ok \in BOOLEAN :
        api_log' = log_api_with_conf(api_log, LogRow(0, "fail", 0, text), audit_ok)
    /\ last' = Outcome("HTTPError")
    /\ UNCHANGED <<master, detail, daily>>

\* lines 538-549: str(e)
AuditURLError ==
    /\ Started
    /\ \E text \in TextLengths, audit_ok \in BOOLEAN :
        api_log' = log_api_with_conf(api_log, LogRow(0, "fail", 0, text), audit_ok)
    /\ last' = Outcome("URLError")
    /\ UNCHANGED <<master, detail, daily>>

\* lines 550-561: the fixed text
AuditJSONDecodeError ==
    /\ Started
    /\ \E audit_ok \in BOOLEAN :
        api_log' = log_api_with_conf(api_log, LogRow(0, "fail", 0, JsonDecodeErrorText),
                                     audit_ok)
    /\ last' = Outcome("JSONDecodeError")
    /\ UNCHANGED <<master, detail, daily>>

\* lines 570-583: str(e)
AuditConnectFail ==
    /\ Started
    /\ \E text \in TextLengths, audit_ok \in BOOLEAN :
        api_log' = log_api_with_conf(api_log, LogRow(0, "fail", 0, text), audit_ok)
    /\ last' = Outcome("connect_failed")
    /\ UNCHANGED <<master, detail, daily>>

\* lines 585-604: the business writes, then json.dumps(payload)[:5000]
AuditCommit ==
    /\ Started
    /\ \E items \in AuditBatches, text \in TextLengths :
        /\ \E tx \in {TxAfter(CurrentDb, items, StepNo("insert_api_log") - 1)} :
            \E db \in {Commit(CurrentDb,
                              [tx EXCEPT !.api_log = insert_api_log(
                                   @, LogRow(1, "success", Len(items), Cut(text)))])} :
                SetDb(db)
        /\ last' = Committed(items)

\* lines 605-620: rollback, then str(e) on the same connection
AuditRollback ==
    /\ Started
    /\ \E items \in AuditBatches, fail \in {Steps[i] : i \in 1..Len(Steps)},
          text \in TextLengths, audit_ok \in BOOLEAN :
        /\ StepRuns(items, fail)
        /\ \E back \in {Rollback(CurrentDb, TxAfter(CurrentDb, items, StepNo(fail) - 1))} :
            \E db \in {[back EXCEPT !.api_log =
                           IF audit_ok THEN insert_api_log(@, LogRow(0, "fail", 0, text))
                           ELSE @]} :
                SetDb(db)
        /\ last' = [Outcome("rolled_back") EXCEPT !.fail = fail]

NextAudit ==
    \/ AuditEmpty
    \/ AuditHTTPError
    \/ AuditURLError
    \/ AuditJSONDecodeError
    \/ AuditConnectFail
    \/ AuditCommit
    \/ AuditRollback
    \/ Exit

SpecAudit == Init /\ [][NextAudit]_vars

\* C13 as claimed: every audit row carries a response text of at most 5000
\* characters.
Cex_C13_AuditTextBound ==
    \A i \in 1..Len(api_log) : api_log[i].response_content <= 5000

\* the rows of the paths that cut the text, or log the fixed one, are in the bound
Chk_C13_CutPaths ==
    [][(nruns' = nruns + 1 /\ last'.path \in {"empty", "JSONDecodeError", "committed"}
          /\ api_log' # api_log)
          => api_log'[Len(api_log')].response_content <= 5000]_vars

(***************************************************************************)
(* SpecConfig: invocations against a reference table whose columns are any *)
(* sequence of up to MaxColumns distinct names of a small vocabulary.      *)
(***************************************************************************)
MaxColumns == 3
ColumnNames ==
    { <<"h", "a", "c", "a", "i", "t", "e", "m">>,
      <<"h", "a", "c", "a", "w", "e", "i", "t">>,
      <<"h", "a", "c", "a", "a", "m", "n", "t">>,
      <<"S", "E", "L", "F", "_", "G", "O", "O", "D", "_", "C", "D">>,
      <<"U", "n", "i", "t", " ", "Q", "t", "y">>,
      <<"a", "m", "o", "u", "n", "t">> }
ColumnLists ==
    {columns \in SeqsUpTo(ColumnNames, MaxColumns) :
        \A i, j \in 1..Len(columns) : i # j => columns[i] # columns[j]}

\* responses of one item for the first declaration, with a line or without
ConfigBatches ==
    {items \in SingleBatches : items[1].invenNo = <<"M", "1">> /\ items[1].chkDate = NULL}

\* populate_sahaca_amount reaches line 114 and the resolver raises: the
\* statements before it have run; lines 605-620 roll them back
ConfigError ==
    /\ Started
    /\ \E items \in ConfigBatches, columns \in ColumnLists, audit_ok \in BOOLEAN :
        /\ StepRuns(items, "populate_sahaca_amount")
        /\ _resolve_sahacacode_columns(columns).error # "none"
        /\ \E tx \in {TxAfter(CurrentDb, items, StepNo("populate_sahaca_amount") - 1)} :
            /\ \E db \in {AfterFailure(CurrentDb, tx, audit_ok)} : SetDb(db)
            /\ last' = [Outcome("rolled_back") EXCEPT !.fail = "populate_sahaca_amount",
                                                     !.items = items,
                                                     !.columns = columns,
                                                     !.tx = tx]

\* the resolver returns the column map, or no line has a good code and the
\* resolver is not called: the transaction commits
ConfigCommit ==
    /\ Started
    /\ \E items \in ConfigBatches, columns \in ColumnLists :
        /\ StepRuns(items, "populate_sahaca_amount")
               => _resolve_sahacacode_columns(columns).error = "none"
        /\ \E db \in {Commit(CurrentDb, TxAfter(CurrentDb, items, Len(Steps)))} : SetDb(db)
        /\ last' = [Committed(items) EXCEPT !.columns = columns]

NextConfig ==
    \/ ConfigError
    \/ ConfigCommit
    \/ Exit

SpecConfig == Init /\ [][NextConfig]_vars

\* the invocation ended because the resolver raised
ConfigAbort ==
    /\ nruns' = nruns + 1
    /\ last'.path = "rolled_back"
    /\ last'.fail = "populate_sahaca_amount"

\* C14 as claimed: when the resolver cannot match a logical column, the run
\* aborts before any write to master, detail or totals has been performed.
Cex_C14_AbortBeforeWrite ==
    [][ConfigAbort => /\ last'.tx.master = master
                      /\ last'.tx.detail = detail
                      /\ last'.tx.daily = daily]_vars

\* the resolver raises exactly when a logical column has no candidate among
\* the columns (compared without case and punctuation), and the writes
\* performed before it raised are not committed
Chk_C14_RaisesAndRollsBack ==
    [][/\ ConfigAbort =>
            /\ \E name \in {"selfGoodCd", "unitQuantity", "hacaamnt"} :
                  \A i \in 1..Len(last'.columns), j \in 1..7 :
                      _col_key(last'.columns[i])
                          # _col_key(SAHACACODE_COLUMN_CANDIDATES[name][j])
            /\ master' = master /\ detail' = detail /\ daily' = daily
       /\ (nruns' = nruns + 1 /\ last'.path = "committed"
             /\ StepRuns(last'.items, "populate_sahaca_amount")) =>
            \A name \in {"selfGoodCd", "unitQuantity", "hacaamnt"} :
                \E i \in 1..Len(last'.columns), j \in 1..7 :
                    _col_key(last'.columns[i])
                        = _col_key(SAHACACODE_COLUMN_CANDIDATES[name][j])]_vars

(***************************************************************************)
(* SpecCost: populate_sahaca_amount applied to every batch of up to        *)
(* MaxCostLines lines against every reference table of up to MaxRates      *)
(* rows, the values drawn from small sets: plain, padded, empty, absent,   *)
(* non-numeric, and the special decimals.                                  *)
(***************************************************************************)
MaxRates == 2
MaxCostLines == 2

RateGoods == { <<"A", "1">>, <<" ", "A", "1">> }
RateQuantities == { <<"5">>, <<"s", "N", "a", "N">> }
RateAmounts == { <<"1", "2", "0">>, <<"x">>, <<"I", "n", "f", "i", "n", "i", "t", "y">> }
RateRows == RateGoods \X RateQuantities \X RateAmounts
RateTables == SeqsUpTo(RateRows, MaxRates)

LineGoods == { <<"A", "1">>, EMPTY }
LineQuantities == { <<"5", ".", "0">>, <<"x">>, <<"s", "N", "a", "N">>, NULL }
LineShipped == { <<"3">>, <<"x">>, <<"I", "n", "f", "i", "n", "i", "t", "y">> }
\* a line without unitQuantity does not have the key
LineItems ==
    { [invenDetNo |-> <<"L", "1">>, selfGoodCd |-> x[1], unitQuantity |-> x[2],
       shipQuantity |-> x[3]] : x \in LineGoods \X (LineQuantities \ {NULL}) \X LineShipped }
    \cup { [invenDetNo |-> <<"L", "1">>, selfGoodCd |-> x[1], shipQuantity |-> x[2]] :
             x \in LineGoods \X LineShipped }
LineBatches ==
    { [i \in 1..Len(items) |-> build_detail_row(<<"M", "1">>, items[i])] :
        items \in SeqsUpTo(LineItems, MaxCostLines) }

InitCost ==
    /\ master = EmptyMap
    /\ detail = EmptyMap
    /\ daily = EmptyMap
    /\ api_log = <<>>
    /\ nruns = 0
    /\ \E sahacacode \in RateTables, rows \in LineBatches :
        last = [sahacacode |-> sahacacode, rows |-> rows, done |-> FALSE,
                raised |-> FALSE, costed |-> rows]

\* populate_sahaca_amount(conn, detail_rows)
Populate ==
    /\ ~last.done
    /\ \E out \in {PopulateFrom(last.sahacacode, last.rows)} :
        last' = [last EXCEPT !.done = TRUE, !.raised = out.raised, !.costed = out.rows]
    /\ UNCHANGED <<master, detail, daily, api_log, nruns>>

NextCost == Populate

SpecCost == InitCost /\ [][NextCost]_vars

\* the rows of the reference table whose normalized key is that of the line
RateMatches(sahacacode, row) ==
    {j \in 1..Len(sahacacode) :
        /\ _normalize_good_code(sahacacode[j][1]) = _normalize_good_code(row.selfGoodCd)
        /\ _normalize_unit_quantity(sahacacode[j][2])
               = _normalize_unit_quantity(row.unitQuantity)}

\* two costs are the same number
SameCost(a, b) ==
    IF IsFinite(a) /\ IsFinite(b) THEN SqlNumber(a) = SqlNumber(b) ELSE a = b

\* the cost of the line is rate x shipped quantity for a matching rate row
\* (when that product is defined), and 0 when no row matches
CostAsClaimed(sahacacode, row, cost) ==
    IF RateMatches(sahacacode, row) = {}
    THEN SameCost(cost, ZERO_DECIMAL)
    ELSE \E j \in RateMatches(sahacacode, row) :
             \E product \in {DecMul(_to_decimal(sahacacode[j][3]),
                                    _to_decimal(row.shipQuantity))} :
                 product = RaisedDecimal \/ SameCost(cost, product)

\* C15 as claimed: for every batch and every reference table, the cost that
\* populate_sahaca_amount sets on each line is rate x shipped quantity for the
\* rate row with the line's normalized (good code, unit quantity), and 0 when
\* no rate row matches.
Cex_C15_CostCorrectness ==
    (last.done /\ ~last.raised) =>
        \A i \in 1..Len(last.rows) :
            CostAsClaimed(last.sahacacode, last.rows[i], last.costed[i].sahaca_amount)

\* the same holds when the reference table stores its good codes trimmed and
\* nothing raises; rate row (A1, 5, 120) and line (A1, 5.0, shipped 3) give 360
Chk_C15_TrimmedReference ==
    (last.done /\ ~last.raised
       /\ \A j \in 1..Len(last.sahacacode) :
             last.sahacacode[j][1] = _normalize_good_code(last.sahacacode[j][1]))
    => /\ \A i \in 1..Len(last.rows) :
             CostAsClaimed(last.sahacacode, last.rows[i], last.costed[i].sahaca_amount)
       /\ (/\ last.sahacacode = << <<(<<"A", "1">>), (<<"5">>), (<<"1", "2", "0">>)>> >>
           /\ Len(last.rows) = 1
           /\ last.rows[1].selfGoodCd = <<"A", "1">>
           /\ last.rows[1].unitQuantity = <<"5", ".", "0">>
           /\ last.rows[1].shipQuantity = <<"3">>)
          => last.costed[1].sahaca_amount = Dec(0, 360, 0)

\* C16 as claimed: whatever the good codes, quantities and rates are, the
\* cost computation completes without raising and every line has its cost.
Cex_C16_NeverAborts ==
    last.done => /\ ~last.raised
                 /\ Len(last.costed) = Len(last.rows)

\* it does not raise when no value is a signaling NaN or an infinity
PlainValues ==
    /\ \A j \in 1..Len(last.sahacacode) :
          /\ ParseDecimal(last.sahacacode[j][2]).ok
                 => IsFinite(ParseDecimal(last.sahacacode[j][2]).d)
          /\ IsFinite(_to_decimal(last.sahacacode[j][3]))
    /\ \A i \in 1..Len(last.rows) :
          /\ (last.rows[i].unitQuantity # NULL /\ ParseDecimal(last.rows[i].unitQuantity).ok)
                 => IsFinite(ParseDecimal(last.rows[i].unitQuantity).d)
          /\ IsFinite(_to_decimal(last.rows[i].shipQuantity))
Chk_C16_PlainValues == (last.done /\ PlainValues) => ~last.raised

(***************************************************************************)
(* SpecFinalize: the statements of one invocation, row by row, interleaved *)
(* with a concurrent process that sets the finalize marker of a row.       *)
(* master and detail hold the latest version of each row; the rows that    *)
(* the open transaction has written are locked until it ends (the keys of  *)
(* undo_m and undo_d, with the versions a rollback restores), so that the  *)
(* concurrent process waits for them.                                      *)
(***************************************************************************)
\* the statement decides on the snapshot that the transaction read earlier
StatementView_snapshot(current, snapshot) == snapshot
\* INSERT ... ON DUPLICATE KEY UPDATE reads the latest version of the row it
\* conflicts with, under its lock, whatever the transaction has read before
StatementView(current, snapshot) == current

\* responses of the first declaration, or of the first and the second, each
\* open and with one line of the good G1
FinalizeItems(id) ==
    {item \in MasterItems :
        /\ item.invenNo = id
        /\ item.chkDate \in {NULL, EMPTY}
        /\ Len(item.detailList) = 1
        /\ item.detailList[1].selfGoodCd = <<"G", "1">>}
FinalizeBatches ==
    {<<a>> : a \in FinalizeItems(<<"M", "1">>)}
    \cup {<<a, b>> : a \in FinalizeItems(<<"M", "1">>), b \in FinalizeItems(<<"M", "2">>)}

\* no transaction is open
NoTx ==
    [pc |-> "idle", master_rows |-> <<>>, detail_rows |-> <<>>, i |-> 0,
     snapshot |-> Db(EmptyMap, EmptyMap, EmptyMap, <<>>),
     undo_m |-> EmptyMap, undo_d |-> EmptyMap,
     fresh_m |-> {}, fresh_d |-> {}, raced_m |-> FALSE, raced_d |-> FALSE]

\* the version of the row that a rollback restores: recorded when the
\* transaction first writes the key
UndoPut(undo, tbl, key, row) ==
    IF key \in DOMAIN undo THEN undo
    ELSE [k \in DOMAIN undo \cup {key} |->
             IF k # key THEN undo[k]
             ELSE IF key \in DOMAIN tbl THEN [present |-> TRUE, row |-> tbl[key]]
             ELSE [present |-> FALSE, row |-> row]]

\* the table after the rollback of the rows in undo
UndoTable(tbl, undo) ==
    [k \in DOMAIN tbl \ {x \in DOMAIN undo : ~undo[x].present} |->
        IF k \in DOMAIN undo THEN undo[k].row ELSE tbl[k]]

\* the table with the row of this key as the statement leaves it
PutRow(tbl, key, written) ==
    [k \in DOMAIN tbl \cup {key} |-> IF k = key THEN written[key] ELSE tbl[k]]

\* main() connects and builds its rows: lines 563-571
TxBegin ==
    /\ last.pc = "idle"
    /\ nruns < MaxRuns
    /\ nruns' = nruns + 1
    /\ \E items \in FinalizeBatches :
        last' = [NoTx EXCEPT !.pc = "upsert_master",
                             !.master_rows = BuildMasterRows(items),
                             !.detail_rows = BuildDetailRows(items),
                             !.i = 1,
                             !.snapshot = CurrentDb]
    /\ UNCHANGED <<master, detail, daily, api_log>>

\* upsert_master: the statement handles its next row (line 587)
TxUpsertMasterRow ==
    /\ last.pc = "upsert_master"
    /\ last.i <= Len(last.master_rows)
    /\ \E row \in {last.master_rows[last.i]} :
        /\ master' = PutRow(master, row.invenNo,
                            UpsertMasterRow(StatementView(master, last.snapshot.master), row))
        /\ last' = [last EXCEPT !.i = @ + 1,
                                !.undo_m = UndoPut(@, master, row.invenNo, row),
                                !.raced_m = @ \/ row.invenNo \in last.fresh_m]
    /\ UNCHANGED <<detail, daily, api_log, nruns>>

\* populate_sahaca_amount, after the last master row (lines 588-589)
TxPopulate ==
    /\ last.pc = "upsert_master"
    /\ last.i > Len(last.master_rows)
    /\ last' = [last EXCEPT !.pc = "upsert_detail", !.i = 1,
                            !.detail_rows = populate_sahaca_amount(@)]
    /\ UNCHANGED <<master, detail, daily, api_log, nruns>>

\* upsert_detail: the statement handles its next row (line 590)
TxUpsertDetailRow ==
    /\ last.pc = "upsert_detail"
    /\ last.i <= Len(last.detail_rows)
    /\ \E row \in {last.detail_rows[last.i]} :
        /\ detail' = PutRow(detail, DetailKey(row),
                            UpsertDetailRow(StatementView(detail, last.snapshot.detail), row))
        /\ last' = [last EXCEPT !.i = @ + 1,
                                !.undo_d = UndoPut(@, detail, DetailKey(row), DetailStored(row)),
                                !.raced_d = @ \/ DetailKey(row) \in last.fresh_d]
    /\ UNCHANGED <<master, daily, api_log, nruns>>

\* the totals, the audit row and the commit: lines 591-603
TxCommit ==
    /\ last.pc = "upsert_detail"
    /\ last.i > Len(last.detail_rows)
    /\ daily' = update_daily_unloading_cost_total(master, detail, daily,
                                                  InvenNosOf(last.detail_rows))
    /\ api_log' = insert_api_log(api_log, AuditRow(1, "success", Len(last.master_rows)))
    /\ last' = [NoTx EXCEPT !.pc = "committed"]
    /\ UNCHANGED <<master, detail, nruns>>

\* a statement raises: rollback and the failure row, lines 605-620
TxRollback ==
    /\ last.pc \in {"upsert_master", "upsert_detail"}
    /\ master' = UndoTable(master, last.undo_m)
    /\ detail' = UndoTable(detail, last.undo_d)
    /\ \E audit_ok \in BOOLEAN :
        api_log' = IF audit_ok THEN insert_api_log(api_log, AuditRow(0, "fail", 0))
                   ELSE api_log
    /\ last' = [NoTx EXCEPT !.pc = "rolled_back"]
    /\ UNCHANGED <<daily, nruns>>

\* the process ends
TxExit ==
    /\ last.pc \in {"committed", "rolled_back"}
    /\ last' = NoTx
    /\ UNCHANGED <<master, detail, daily, api_log, nruns>>

\* the concurrent process confirms a declaration that no open transaction
\* has written: chkDate becomes non-empty
FinalizeMaster ==
    /\ \E key \in DOMAIN master \ DOMAIN last.undo_m :
        /\ MasterOpen(master[key])
        /\ master' = [master EXCEPT ![key].chkDate = <<"C">>]
        /\ last' = [last EXCEPT !.fresh_m =
                       IF last.pc \in {"upsert_master", "upsert_detail"}
                       THEN @ \cup {key} ELSE @]
    /\ UNCHANGED <<detail, daily, api_log, nruns>>

\* the concurrent process marks a line as applied: flag_erp_apply = 1
FinalizeDetail ==
    /\ \E key \in DOMAIN detail \ DOMAIN last.undo_d :
        /\ ~DetailFrozen(detail[key])
        /\ detail' = [detail EXCEPT ![key].flag_erp_apply = 1]
        /\ last' = [last EXCEPT !.fresh_d =
                       IF last.pc \in {"upsert_master", "upsert_detail"}
                       THEN @ \cup {key} ELSE @]
    /\ UNCHANGED <<master, daily, api_log, nruns>>

InitFinalize ==
    /\ master = EmptyMap
    /\ detail = EmptyMap
    /\ daily = EmptyMap
    /\ api_log = <<>>
    /\ nruns = 0
    /\ last = NoTx

NextFinalize ==
    \/ TxBegin
    \/ TxUpsertMasterRow
    \/ TxPopulate
    \/ TxUpsertDetailRow
    \/ TxCommit
    \/ TxRollback
    \/ TxExit
    \/ FinalizeMaster
    \/ FinalizeDetail

SpecFinalize == InitFinalize /\ [][NextFinalize]_vars

\* C17: in every interleaving of the row upserts of an invocation with the
\* process that sets finalize markers, a row whose marker is set (master
\* chkDate non-empty, detail flag_erp_apply = 1) is left as it is, field by
\* field, by every later step: the check of the marker and the write are one
\* step on the latest version of the row.
Thm_C17_AtomicFinalizeCheck ==
    [][/\ \A key \in DOMAIN master :
              Coalesce(master[key].chkDate, EMPTY) # EMPTY
                  => key \in DOMAIN master' /\ master'[key] = master[key]
       /\ \A key \in DOMAIN detail :
              detail[key].flag_erp_apply = 1
                  => key \in DOMAIN detail' /\ detail'[key] = detail[key]]_vars

\* while the second invocation was between its statements the markers of a
\* declaration and of a line were set, and the upserts of the invocation then
\* met both rows
Wit_C17_AtomicFinalizeCheck ==
    /\ nruns = 2
    /\ last.pc = "upsert_detail"
    /\ last.i > Len(last.detail_rows)
    /\ last.raced_m
    /\ last.raced_d

(***************************************************************************)
(* SpecConcurrent: two invocations, each in a transaction of its own, on   *)
(* the same storage.  master, detail, daily and api_log hold what is       *)
(* committed; last[r] holds, for the invocation r, its position, its rows, *)
(* the rows it has written and not yet committed (wm, wd, wt: they are     *)
(* locked until the transaction ends), the snapshot its SELECTs read, and  *)
(* the totals its sum_sql has fetched.                                     *)
(***************************************************************************)
Runs == {"A", "B"}
Other(r) == CHOOSE o \in Runs : o # r

\* a response of one open declaration with one line of the good G1
RunBatches == {<<a>> : a \in FinalizeItems(<<"M", "1">>) \cup FinalizeItems(<<"M", "2">>)}

NoRunTx ==
    [pc |-> "idle", master_rows |-> <<>>, detail_rows |-> <<>>,
     snapshot |-> Db(EmptyMap, EmptyMap, EmptyMap, <<>>),
     wm |-> EmptyMap, wd |-> EmptyMap, wt |-> EmptyMap, totals |-> EmptyMap,
     alone |-> TRUE]

\* the table as a transaction sees it: its own writes over the given version
Overlay(tbl, written) ==
    [k \in DOMAIN tbl \cup DOMAIN written |->
        IF k \in DOMAIN written THEN written[k] ELSE tbl[k]]

\* the rows of these keys, as the statement left them
Written(written, tbl, keys) ==
    [k \in DOMAIN written \cup keys |-> IF k \in keys THEN tbl[k] ELSE written[k]]

InProgress(tx) == tx.pc \notin {"idle", "committed", "rolled_back"}

\* main() builds its rows and connects: lines 563-571
RunBegin ==
    \E r \in Runs, items \in RunBatches :
        /\ last[r].pc = "idle"
        /\ last' = [last EXCEPT ![r] =
                       [NoRunTx EXCEPT !.pc = "upsert_master",
                                       !.master_rows = BuildMasterRows(items),
                                       !.detail_rows = BuildDetailRows(items)]]
        /\ nruns' = nruns + 1
        /\ UNCHANGED <<master, detail, daily, api_log>>

\* upsert_master (line 587): waits while the other transaction holds a row
RunUpsertMaster ==
    \E r \in Runs :
        /\ last[r].pc = "upsert_master"
        /\ \E keys \in {{last[r].master_rows[i].invenNo : i \in 1..Len(last[r].master_rows)}} :
            /\ keys \cap DOMAIN last[Other(r)].wm = {}
            /\ \E tbl \in {upsert_master(Overlay(master, last[r].wm), last[r].master_rows)} :
                last' = [last EXCEPT ![r].pc = "populate_sahaca_amount",
                                     ![r].wm = Written(@, tbl, keys)]
        /\ UNCHANGED <<master, detail, daily, api_log, nruns>>

\* populate_sahaca_amount (line 589): the first SELECT of the transaction
\* fixes the snapshot that its later SELECTs read
RunPopulate ==
    \E r \in Runs :
        /\ last[r].pc = "populate_sahaca_amount"
        /\ last' = [last EXCEPT ![r].pc = "upsert_detail",
                                ![r].detail_rows = populate_sahaca_amount(@),
                                ![r].snapshot = CurrentDb,
                                ![r].alone = ~InProgress(last[Other(r)])]
        /\ UNCHANGED <<master, detail, daily, api_log, nruns>>

\* upsert_detail (line 590)
RunUpsertDetail ==
    \E r \in Runs :
        /\ last[r].pc = "upsert_detail"
        /\ \E keys \in {{DetailKey(last[r].detail_rows[i]) : i \in 1..Len(last[r].detail_rows)}} :
            /\ keys \cap DOMAIN last[Other(r)].wd = {}
            /\ \E tbl \in {upsert_detail(
                               StatementView(Overlay(detail, last[r].wd),
                                             Overlay(last[r].snapshot.detail, last[r].wd)),
                               last[r].detail_rows)} :
                last' = [last EXCEPT ![r].pc = "sum_sql",
                                     ![r].wd = Written(@, tbl, keys)]
        /\ UNCHANGED <<master, detail, daily, api_log, nruns>>

\* update_daily_unloading_cost_total, lines 145-203: impacted_sql and sum_sql
\* read the snapshot and the transaction's own writes; totals is what the
\* INSERT will be given
RunSelectTotals ==
    \E r \in Runs :
        /\ last[r].pc = "sum_sql"
        /\ last' = [last EXCEPT ![r].pc = "insert_sql",
                                ![r].totals =
                                    update_daily_unloading_cost_total(
                                        Overlay(last[r].snapshot.master, last[r].wm),
                                        Overlay(last[r].snapshot.detail, last[r].wd),
                                        EmptyMap,
                                        InvenNosOf(last[r].detail_rows))]
        /\ UNCHANGED <<master, detail, daily, api_log, nruns>>

\* update_daily_unloading_cost_total, lines 205-220: insert_sql writes the
\* fetched totals; waits while the other transaction holds a total row
RunUpsertTotals ==
    \E r \in Runs :
        /\ last[r].pc = "insert_sql"
        /\ DOMAIN last[r].totals \cap DOMAIN last[Other(r)].wt = {}
        /\ last' = [last EXCEPT ![r].pc = "commit",
                                ![r].wt = UpsertTotals(@, last[r].totals)]
        /\ UNCHANGED <<master, detail, daily, api_log, nruns>>

\* insert_api_log and conn.commit(): lines 594-603
RunCommit ==
    \E r \in Runs :
        /\ last[r].pc = "commit"
        /\ master' = Overlay(master, last[r].wm)
        /\ detail' = Overlay(detail, last[r].wd)
        /\ daily' = Overlay(daily, last[r].wt)
        /\ api_log' = insert_api_log(api_log, AuditRow(1, "success", Len(last[r].master_rows)))
        /\ last' = [last EXCEPT ![r].pc = "committed",
                                ![r].wm = EmptyMap, ![r].wd = EmptyMap, ![r].wt = EmptyMap]
        /\ UNCHANGED nruns

\* a statement raises: conn.rollback() and the failure row, lines 605-620
RunRollback ==
    \E r \in Runs, audit_ok \in BOOLEAN :
        /\ InProgress(last[r])
        /\ api_log' = IF audit_ok THEN insert_api_log(api_log, AuditRow(0, "fail", 0))
                      ELSE api_log
        /\ last' = [last EXCEPT ![r].pc = "rolled_back",
                                ![r].wm = EmptyMap, ![r].wd = EmptyMap, ![r].wt = EmptyMap]
        /\ UNCHANGED <<master, detail, daily, nruns>>

InitConcurrent ==
    /\ master = EmptyMap
    /\ detail = EmptyMap
    /\ daily = EmptyMap
    /\ api_log = <<>>
    /\ nruns = 0
    /\ last = [r \in Runs |-> NoRunTx]

NextConcurrent ==
    \/ RunBegin
    \/ RunUpsertMaster
    \/ RunPopulate
    \/ RunUpsertDetail
    \/ RunSelectTotals
    \/ RunUpsertTotals
    \/ RunCommit
    \/ RunRollback

SpecConcurrent == InitConcurrent /\ [][NextConcurrent]_vars

\* the aggregation keys to which the lines of both invocations contribute
SharedKeys ==
    KeysOfDeclarations(master, detail, {last["A"].master_rows[1].invenNo})
    \cap KeysOfDeclarations(master, detail, {last["B"].master_rows[1].invenNo})

BothCommitted == \A r \in Runs : last[r].pc = "committed"

\* C20: when two invocations whose lines contribute to the same aggregation
\* key run concurrently, each in its own transaction with snapshot reads, and
\* both have committed, the stored total of the key equals the sum of the
\* cost of all detail lines of the committed ledger with that key.
Cex_C20_ConcurrentTotals ==
    BothCommitted =>
        \A key \in SharedKeys :
            key \in DOMAIN daily /\ daily[key] = LedgerTotal(master, detail, key)

\* the totals are right when each invocation took its snapshot while the
\* other one had no transaction open
Chk_C20_SerialTotals ==
    (BothCommitted /\ last["A"].alone /\ last["B"].alone) =>
        \A key \in SharedKeys :
            key \in DOMAIN daily /\ daily[key] = LedgerTotal(master, detail, key)

(***************************************************************************)
(* SpecAggregate: update_daily_unloading_cost_total applied once, with     *)
(* every list of declaration ids of a bounded set, to every ledger of a    *)
(* bounded set: declarations with and without ship date, lines with and    *)
(* without production declaration and origin code (one production          *)
(* declaration has no chulcode), lines without a master row, and stored    *)
(* totals that are stale.                                                  *)
(***************************************************************************)
AggShipDates == { <<"D", "1">>, <<"D", "2">>, NULL }
AggMasters ==
    { [id \in DOMAIN f |-> [invenNo |-> id, shipDate |-> f[id], chkDate |-> NULL]] :
        f \in UNION {[ids -> AggShipDates] : ids \in SUBSET InvenNos} }

AggLines ==
    { [proDecNo |-> x[1], selfSanCd |-> x[2]] :
        x \in { <<"P", "1">>, <<"P", "2">>, NULL } \X { <<"S">>, NULL } }
AggDetails ==
    { [key \in {<<id, <<"L", "1">>>> : id \in DOMAIN f} |->
          [invenNo |-> key[1], invenDetNo |-> key[2],
           proDecNo |-> f[key[1]].proDecNo, selfGoodCd |-> <<"G", "1">>,
           selfSanCd |-> f[key[1]].selfSanCd, sahaca_amount |-> Num(50),
           flag_erp_apply |-> 0]] :
        f \in UNION {[ids -> AggLines] : ids \in SUBSET InvenNos} }

AggTotalKey(shipDate) == <<shipDate, <<"C", "H">>, <<"C", "D">>, <<"S">>, <<"G", "1">>>>
AggTotals ==
    { EmptyMap,
      [key \in {AggTotalKey(<<"D", "1">>)} |-> Num(70)],
      [key \in {AggTotalKey(<<"D", "1">>), AggTotalKey(<<"D", "2">>)} |->
          IF key[1] = <<"D", "1">> THEN Num(70) ELSE Num(30)] }

\* [row.get("invenNo") for row in detail_rows]: line 592
AggIdLists ==
    { <<>>, <<NULL>>, <<EMPTY>>, <<<<"M", "1">>>>, <<<<"M", "2">>>>,
      <<<<"M", "1">>, <<"M", "2">>>>, <<<<"M", "1">>, NULL, <<"M", "1">>>>,
      <<<<"M", "3">>>> }

InitAggregate ==
    /\ master \in AggMasters
    /\ detail \in AggDetails
    /\ daily \in AggTotals
    /\ api_log = <<>>
    /\ nruns = 0
    /\ last = [done |-> FALSE, inven_nos |-> <<>>, before |-> EmptyMap]

\* update_daily_unloading_cost_total(conn, inven_nos): two SELECTs and the
\* INSERT into daily_unloading_cost_total, lines 145-222
Aggregate ==
    /\ ~last.done
    /\ \E inven_nos \in AggIdLists :
        /\ daily' = update_daily_unloading_cost_total(master, detail, daily, inven_nos)
        /\ last' = [done |-> TRUE, inven_nos |-> inven_nos, before |-> daily]
    /\ UNCHANGED <<master, detail, api_log, nruns>>

NextAggregate == Aggregate

SpecAggregate == InitAggregate /\ [][NextAggregate]_vars

\* the touched declaration ids of a call, and the fully resolved keys of
\* their lines
TouchedIds(inven_nos) == {inven_nos[i] : i \in 1..Len(inven_nos)} \ {NULL, EMPTY}
Discovered(inven_nos) == KeysOfDeclarations(master, detail, TouchedIds(inven_nos))

\* the total rows that the call has written
WrittenTotals ==
    {key \in DOMAIN daily' : key \notin DOMAIN daily \/ daily'[key] # daily[key]}

AggregationFrame(inven_nos) ==
    /\ master' = master
    /\ detail' = detail
    /\ \A key \in DOMAIN daily :
          key \notin Discovered(inven_nos)
              => (key \in DOMAIN daily' /\ daily'[key] = daily[key])
    /\ \A key \in WrittenTotals : \A i \in 1..Len(key) : key[i] # NULL
    /\ (TouchedIds(inven_nos) = {} \/ Discovered(inven_nos) = {}) => daily' = daily

\* C22: update_daily_unloading_cost_total changes no master and no detail
\* row; it leaves every stored total whose key is not a fully resolved key of
\* a line of the touched declaration ids; it writes no total whose key has an
\* absent component; and with no touched id, or no fully resolved key among
\* their lines, it writes nothing.
Thm_C22_AggregationFrame ==
    [][\A inven_nos \in {last'.inven_nos} : AggregationFrame(inven_nos)]_vars

\* the call has rewritten the total of a key of the touched declaration and
\* left a stale total of a key that only a line of another declaration has
Wit_C22_AggregationFrame ==
    /\ last.done
    /\ daily # last.before
    /\ \E key \in DOMAIN daily :
        /\ key \notin Discovered(last.inven_nos)
        /\ key \in KeysOfDeclarations(master, detail, DOMAIN master)
        /\ daily[key] = last.before[key]
        /\ daily[key] # LedgerTotal(master, detail, key)

\* whenever the stored totals differ from those before the call, a line of
\* a touched declaration has a fully resolved key, with a total that is not 0
Chk_C22_NothingWritten ==
    (last.done /\ daily # last.before) =>
        \E key \in Discovered(last.inven_nos) : daily[key] # SqlZero

====
